---- MODULE Spec2Model ----
(***************************************************************************)
(* Model of the execution verifiers of the debug-agent repository:         *)
(*   run_tests            src/agent/tools.py   lines 111-256                *)
(*   execute_python_code  src/agents/tools.py  lines 22-96                  *)
(* Each call is unrolled statement by statement, so that the SIGALRM       *)
(* signal armed by the call can be delivered between any two statements.   *)
(* A candidate or test text is a sequence of lines; each line carries one  *)
(* abstract statement.                                                     *)
(***************************************************************************)
EXTENDS Integers, Sequences, FiniteSets, TLC

\* ------------------------------------------------------------------ bounds
MaxLines == 2      \* Len(code) + Len(test) of one call
MaxBudget == 3     \* largest max_iterations a BugFixAgent is built with
MaxCalls == 2      \* tool calls in one reply of the model of src/agent/agent.py

\* --------------------------------------------------------- program texts
\* Statements a line can hold.
\*   blank       empty line                 print      writes a marker to stdout
\*   def         one-line function def      assert     raises AssertionError
\*   raise_V     raises ValueError          raise_T    raises builtins.TimeoutError
\*   exit        raises SystemExit          loop       while True: pass
\*   loop_catch  endless loop whose body catches Exception and goes on
\*   bad         text the parser rejects
\*   use         reads the name that def binds (NameError when it is unbound)
Stmts == {"blank", "print", "def", "use", "assert", "raise_V", "raise_T",
          "exit", "loop", "loop_catch", "bad"}

\* A line is a statement, possibly followed by trailing white space.
LineSet == {[stmt |-> s, pad |-> FALSE] : s \in Stmts}
             \cup {[stmt |-> "assert", pad |-> TRUE]}

EmptyLine == [stmt |-> "blank", pad |-> FALSE]

\* The empty string: ''.split('\n') is one empty line.
EmptyText == <<EmptyLine>>

TextsOfLen(n) == [1..n -> LineSet]

\* Pairs (code, test) a call can be given.
Inputs == UNION {TextsOfLen(n) \X TextsOfLen(m) :
                   <<n, m>> \in {p \in (1..MaxLines) \X (1..MaxLines) : p[1] + p[2] <= MaxLines}}

\* full_code = function_code + "\n\n" + test_code; full_code.split('\n')
full_code_lines(c, t) == c \o <<EmptyLine>> \o t

\* str.strip() of a line: the statement text without the surrounding white space.
strip(line) == IF line.stmt = "blank" THEN "" ELSE line.stmt

\* compile(): the text parses iff no line is rejected.
Parses(text) == \A i \in 1..Len(text) : text[i].stmt # "bad"

\* First line the parser rejects (SyntaxError.lineno).
RECURSIVE FirstBad(_, _)
FirstBad(text, i) ==
    IF i > Len(text) THEN 0
    ELSE IF text[i].stmt = "bad" THEN i ELSE FirstBad(text, i + 1)

\* `if test_code:` -- a str is truthy iff it is not empty.
Truthy(text) == text # EmptyText

\* ------------------------------------------------------ exception classes
\* "agent.TimeoutError"  is class TimeoutError of src/agent/tools.py,
\* "agents.TimeoutError" is class TimeoutError of src/agents/tools.py,
\* "builtins.TimeoutError" is the builtin one (an OSError).
ExcClasses == {"AssertionError", "ValueError", "SyntaxError", "OSError",
               "NameError",
               "builtins.TimeoutError", "agent.TimeoutError",
               "agents.TimeoutError", "SystemExit"}

\* type(e).__name__
TypeName(cls) ==
    CASE cls = "builtins.TimeoutError" -> "TimeoutError"
      [] cls = "agent.TimeoutError"    -> "TimeoutError"
      [] cls = "agents.TimeoutError"   -> "TimeoutError"
      [] OTHER -> cls

\* issubclass(cls, Exception): SystemExit derives from BaseException only.
IsException(cls) == cls \in ExcClasses \ {"SystemExit"}

NoExc == [cls |-> "none", tb |-> <<>>, lineno |-> 0]

\* The exception a statement raises when executed ("none": it raises nothing;
\* use raises only when the name is unbound).
Raises(stmt) ==
    CASE stmt = "assert"  -> "AssertionError"
      [] stmt = "raise_V" -> "ValueError"
      [] stmt = "raise_T" -> "builtins.TimeoutError"
      [] stmt = "exit"    -> "SystemExit"
      [] stmt = "use"     -> "NameError"
      [] OTHER -> "none"

\* ------------------------------------------------------------ tracebacks
\* A frame summary: file name, line number; own tells whether the frame's
\* source is the program text passed to exec (the code never sees it).
RunnerFrame == [filename |-> "tools.py", lineno |-> 152, own |-> FALSE]
OwnFrame(n) == [filename |-> "<string>", lineno |-> n, own |-> TRUE]
\* A frame inside an imported library module.
LibFrame    == [filename |-> "lib.py", lineno |-> 1, own |-> FALSE]
\* A frame of code that a library (dataclasses) or the program itself
\* compiled with exec/eval: its file name is "<string>" as well.
GenFrame(n) == [filename |-> "<string>", lineno |-> n, own |-> FALSE]
GenLines == {1, 4}

\* Frames below the frame of the raising top-level statement at line ip:
\* none, a function of the program defined on an earlier line, a library
\* function, or generated code.
DeepFrames(lines, ip) ==
    {<<>>}
      \cup {<<OwnFrame(k)>> : k \in {j \in 1..(ip - 1) : lines[j].stmt = "def"}}
      \cup {<<LibFrame>>}
      \cup {<<GenFrame(g)>> : g \in GenLines}


\* --------------------------------------------------------- process state
VARIABLES
    fn,           \* the verifier running or last run: run_tests / execute_python_code
    pc,           \* the statement the call is about to execute
    code, test,   \* the candidate text and the test text of the call
    ip,           \* exec: 0 compiling, i the line being run, Len+1 returning
    tick,         \* flips on every pass of an endless loop of the program
    alarm,        \* the pending SIGALRM: who armed it, in this call or an earlier one
    handler,      \* the installed SIGALRM handler
    sys_stdout,   \* sys.stdout: the caller's stream, the StringIO of this call (own)
                  \* or the StringIO of an earlier call (stale)
    sys_stderr,   \* sys.stderr, likewise
    old_stdout,   \* local old_stdout of run_tests / saved target of redirect_stdout
    old_stderr,   \* local old_stderr, likewise
    outbuf,       \* number of markers written to the StringIO of this call
    exc,          \* the exception in flight, or the one the handler caught
    result,       \* the dictionary built so far
    outcome,      \* how the call ended: returned / raised
    entry_out,    \* history: sys.stdout when the call began
    entry_err,    \* history: sys.stderr when the call began
    sigAt,        \* history: pc at which SIGALRM was delivered in this call
    progExc,      \* history: class of the exception that ended the program
    ran,          \* history: a statement of the program was executed in this call
    fault,        \* history: failure of the surrounding machinery in this call
    stale,        \* history: a SIGALRM was delivered after its call had ended
    namespace,    \* the names the program has bound in the dictionary given to exec
    leftover,     \* history: the names bound by the programs of earlier calls
    sigOf         \* history: which call had armed the SIGALRM delivered in this call

\* A caller that invokes a verifier twice in a row on the same texts.
VARIABLES
    prev          \* history: the first call of the pair (texts, how it ended)

\* BugFixAgent.fix_bug (src/agents/fix_bug_agent.py): the graph state
\* (AgentState) and the position in the graph.
VARIABLES
    bf_node,        \* the node about to run: agent / tools / extract_code / END
    bf_messages,    \* state["messages"]
    buggy_code,     \* state["buggy_code"]
    fixed_code,     \* state["fixed_code"]
    iteration,      \* state["iteration"]
    max_iterations, \* state["max_iterations"]
    bf_ret,         \* what fix_bug returned
    bf_runs,        \* history: how many times the agent node has run
    bf_hist         \* history: every reply so far carried the unchanged
                    \* candidate / no tool message so far reported success

bugfixVars == <<bf_node, bf_messages, buggy_code, fixed_code, iteration,
                max_iterations, bf_ret, bf_runs, bf_hist>>

\* process_single_row (src/agent/run.py) running the graph of
\* src/agent/agent.py.
VARIABLES
    g_node,       \* the node about to run: read_code / run_tests_initial /
                  \* agent / tools / END, or how the run ended
    g_file,       \* the content of tmp/code/code_{task_id}.py
    g_other,      \* the content of another file that a write_file call of the
                  \* model named, "" while there is none
    g_messages,   \* the end of state["messages"]: from the latest reply of
                  \* the model on (all of it before the first reply)
    g_verdict,    \* the status of the latest run_tests verdict in the messages
    g_exc,        \* the exception that left graph.stream
    g_ret,        \* what process_single_row returned
    g_asked,      \* history: g_verdict when the model was last invoked
    g_res         \* history of the latest tools step: what run_tests answered
                  \* to each call, the call that raised, the file beforehand

graphVars == <<g_node, g_file, g_other, g_messages, g_verdict, g_exc, g_ret,
               g_asked, g_res>>

\* Two applications of BugFixAgent._should_continue, side by side.
VARIABLES
    sc_states,    \* the two graph states (messages, iteration, max_iterations)
    sc_routes     \* what _should_continue answered on each, <<>> before

scVars == <<sc_states, sc_routes>>

\* run (src/agent/run.py): the rows of the dataset handed to the workers of
\* the pool, and the files under tmp/.
VARIABLES
    p_rows,       \* row index -> task_id of the row
    p_pc,         \* row index -> where process_single_row stands for the row
    p_writers,    \* file name -> who has written the file: <<row, text>>
    p_readers     \* file name -> the rows whose task has read the file

poolVars == <<p_rows, p_pc, p_writers, p_readers>>

\* One pair of texts given both to run_tests of src/agent/tools.py and to
\* the evaluation of src/eval/evaluation.py.
VARIABLES
    ev_in,        \* the texts: <<code, test>>
    ev_out        \* what each of the two ran and how it classed it, <<>> before

evalVars == <<ev_in, ev_out>>

\* The tool function run_code (src/agents/tools.py lines 107-144), which
\* calls execute_python_code.
VARIABLES
    rc_pc,        \* idle / called / returned / raised
    rc_in,        \* the input: has it a TESTS: section, its code and test parts
    rc_ret        \* the text run_code returned, "" while there is none

runCodeVars == <<rc_pc, rc_in, rc_ret>>

\* HumanEvalFixLoader (src/data/humanevalfix/loader.py).
VARIABLES
    ld_call,      \* the method called and its argument, <<>> before the call
    ld_env,       \* what load_dataset did in that call
    ld_out        \* how the call ended and what it returned

loaderVars == <<ld_call, ld_env, ld_out>>

\* run (src/agent/run.py) and the results column.
VARIABLES
    r_pc,         \* off / start / collect / returned / raised
    r_env,        \* the results file run finds: absent, without or with the column
    r_col,        \* df[version]: row -> value
    r_csv,        \* the column as the results file stores it, <<>> while absent
    r_subs,       \* row -> how often the row was submitted to the pool
    r_got         \* the rows whose future has been collected

runVars == <<r_pc, r_env, r_col, r_csv, r_subs, r_got>>

\* run_tests and main of src/eval/evaluation.py.
VARIABLES
    ec_pc,        \* off / loop / returned / raised / hang / exited
    ec_rows,      \* the rows of the results file: their code cells
    ec_i,         \* the row the loop is at
    ec_results,   \* the counters passed, failed, errors, timeout
    ec_exit       \* the exit code of the process, -1 while it runs

countVars == <<ec_pc, ec_rows, ec_i, ec_results, ec_exit>>

\* calculate_pass_at_1 (src/eval/evaluate_pass_at1.py).
VARIABLES
    pa_pc,        \* off / loop / called / returned / raised
    pa_total,     \* total = len(results)
    pa_counts,    \* passed, failed, errors
    pa_detailed   \* detailed_results; task_id is the place in the input list

passVars == <<pa_pc, pa_total, pa_counts, pa_detailed>>

\* The task id on its way from process_single_row to run_tests.
VARIABLES
    tp_pc,        \* off / row / named / read
    tp_id,        \* task_id of process_single_row (run.py line 26)
    tp_paths,     \* the paths of the code file and of the test file written
    tp_read       \* the path of the test file run_tests reads

pathVars == <<tp_pc, tp_id, tp_paths, tp_read>>

vars == <<fn, pc, code, test, ip, tick, alarm, handler, sys_stdout,
          sys_stderr, old_stdout, old_stderr, outbuf, exc, result, outcome,
          entry_out, entry_err, sigAt, progExc, ran, fault, stale, namespace,
          leftover, sigOf>>

\* The variables of the callers modelled further down: a step of a verifier
\* call leaves them alone.
others == <<prev, bugfixVars, graphVars, scVars, poolVars, evalVars, runCodeVars, loaderVars, runVars, countVars, passVars, pathVars>>

\* What the steps of each caller leave alone.
outsidePair   == <<bugfixVars, graphVars, scVars, poolVars, evalVars, runCodeVars, loaderVars, runVars, countVars, passVars, pathVars>>
outsideBugFix == <<vars, prev, graphVars, scVars, poolVars, evalVars, runCodeVars, loaderVars, runVars, countVars, passVars, pathVars>>
outsideGraph  == <<vars, prev, bugfixVars, scVars, poolVars, evalVars, runCodeVars, loaderVars, runVars, countVars, passVars, pathVars>>
outsideShouldContinue == <<vars, prev, bugfixVars, graphVars, poolVars, evalVars, runCodeVars, loaderVars, runVars, countVars, passVars, pathVars>>
outsidePool   == <<vars, prev, bugfixVars, graphVars, scVars, evalVars, runCodeVars, loaderVars, runVars, countVars, passVars, pathVars>>
outsideEval == <<vars, prev, bugfixVars, graphVars, scVars, poolVars, runCodeVars, loaderVars, runVars, countVars, passVars, pathVars>>
outsideRunCode == <<prev, bugfixVars, graphVars, scVars, poolVars, evalVars, loaderVars, runVars, countVars, passVars, pathVars>>
outsideLoader == <<vars, prev, bugfixVars, graphVars, scVars, poolVars, evalVars, runCodeVars, runVars, countVars, passVars, pathVars>>
outsideRun == <<vars, prev, bugfixVars, graphVars, scVars, poolVars, evalVars, runCodeVars, loaderVars, countVars, passVars, pathVars>>
outsideCount == <<vars, prev, bugfixVars, graphVars, scVars, poolVars, evalVars, runCodeVars, loaderVars, runVars, passVars, pathVars>>
outsidePass == <<prev, bugfixVars, graphVars, scVars, poolVars, evalVars, runCodeVars, loaderVars, runVars, countVars, pathVars>>
outsidePath == <<vars, prev, bugfixVars, graphVars, scVars, poolVars, evalVars, runCodeVars, loaderVars, runVars, countVars, passVars>>

\* _should_continue has not been applied.
ShouldContinueIdle == sc_states = <<>> /\ sc_routes = <<>>

\* run has not been called.
PoolIdle ==
    /\ p_rows = <<>>
    /\ p_pc = <<>>
    /\ p_writers = <<>>
    /\ p_readers = <<>>

\* The evaluation has not been run.
EvalIdle == ev_in = <<>> /\ ev_out = <<>>

\* run_code has not been called.
RunCodeIdle == rc_pc = "idle" /\ rc_in = <<>> /\ rc_ret = ""

\* No method of the loader has been called.
LoaderIdle == ld_call = <<>> /\ ld_env = <<>> /\ ld_out = <<>>

\* run has not been called.
RunIdle ==
    /\ r_pc = "off"
    /\ r_env = <<>>
    /\ r_col = <<>>
    /\ r_csv = <<>>
    /\ r_subs = <<>>
    /\ r_got = {}

\* The evaluation's main has not been called.
CountIdle ==
    /\ ec_pc = "off"
    /\ ec_rows = <<>>
    /\ ec_i = 0
    /\ ec_results = <<>>
    /\ ec_exit = -1

\* calculate_pass_at_1 has not been called.
PassIdle ==
    /\ pa_pc = "off"
    /\ pa_total = 0
    /\ pa_counts = <<>>
    /\ pa_detailed = <<>>

\* No task id is on its way.
PathIdle ==
    /\ tp_pc = "off"
    /\ tp_id = <<>>
    /\ tp_paths = <<>>
    /\ tp_read = <<>>

\* The callers beyond the first four are idle.
RestIdle == ShouldContinueIdle /\ PoolIdle /\ EvalIdle /\ RunCodeIdle /\ LoaderIdle /\ RunIdle /\ CountIdle /\ PassIdle /\ PathIdle

NoAlarm == [by |-> "none", of |-> "none"]
NoResult == [status |-> "none"]
Unbound == "unbound"

\* timeout_seconds of run_tests and the default timeout of execute_python_code
timeout_seconds == 5

\* signal.alarm as it would act if the cancelling calls were missing: the
\* pending alarm stays.
signal_alarm_kept(seconds, f) ==
    IF seconds = 0 THEN alarm ELSE [by |-> f, of |-> "cur"]

\* signal.alarm(seconds) called by verifier f: 0 cancels the pending alarm,
\* any other value replaces it.
signal_alarm(seconds, f) ==
    IF seconds = 0 THEN NoAlarm ELSE [by |-> f, of |-> "cur"]

\* The exception class raised by the installed handler (timeout_handler of
\* either module).
HandlerRaises ==
    IF handler = "agent.timeout_handler" THEN "agent.TimeoutError"
    ELSE "agents.TimeoutError"

\* The name a one-line function definition binds.
DefName == "f"

\* The execution namespace as it would be if one dictionary were shared by
\* all calls: the bindings of earlier programs are still in it.
SharedNamespace == leftover

\* namespace = {} (run_tests, line 143) and exec_namespace = {...}
\* (execute_python_code, lines 50-53): a new dictionary for every call, in
\* which the program has bound nothing yet.
FreshNamespace == {}

VerifierInit ==
    /\ fn = "none"
    /\ pc = "idle"
    /\ code = EmptyText
    /\ test = EmptyText
    /\ ip = 0
    /\ tick = 0
    /\ alarm = NoAlarm
    /\ handler = "SIG_DFL"
    /\ sys_stdout = "caller"
    /\ sys_stderr = "caller"
    /\ old_stdout = Unbound
    /\ old_stderr = Unbound
    /\ outbuf = 0
    /\ exc = NoExc
    /\ result = NoResult
    /\ outcome = "none"
    /\ entry_out = "caller"
    /\ entry_err = "caller"
    /\ sigAt = "none"
    /\ progExc = "n/a"
    /\ ran = FALSE
    /\ fault = "none"
    /\ stale = FALSE
    /\ namespace = {}
    /\ leftover = {}
    /\ sigOf = "none"

\* A stream or an alarm of the call that ends belongs to an earlier call
\* from now on.
Aged(stream) == IF stream = "own" THEN "stale" ELSE stream
AgedAlarm(a) == IF a = NoAlarm THEN NoAlarm ELSE [a EXCEPT !.of = "earlier"]

\* The caller invokes a verifier: the locals of the call are fresh, the
\* process state (alarm, handler, sys.stdout, sys.stderr) is inherited.
Call(f, c, t) ==
    /\ pc = "idle"
    /\ fn' = f
    /\ pc' = IF f = "run_tests" THEN "rt_read" ELSE "ep_init"
    /\ code' = c
    /\ test' = t
    /\ stale' = FALSE
    /\ UNCHANGED <<ip, tick, alarm, handler, sys_stdout, sys_stderr,
                   old_stdout, old_stderr, outbuf, exc, result, outcome,
                   entry_out, entry_err, sigAt, progExc, ran, fault,
                   namespace, leftover, sigOf>>

\* The call has ended and the caller goes on: the frame of the call is gone.
Return ==
    /\ pc = "done"
    /\ pc' = "idle"
    /\ fn' = "none"
    /\ code' = EmptyText
    /\ test' = EmptyText
    /\ ip' = 0
    /\ tick' = 0
    /\ alarm' = AgedAlarm(alarm)
    /\ sys_stdout' = Aged(sys_stdout)
    /\ sys_stderr' = Aged(sys_stderr)
    /\ old_stdout' = Unbound
    /\ old_stderr' = Unbound
    /\ outbuf' = 0
    /\ exc' = NoExc
    /\ result' = NoResult
    /\ outcome' = "none"
    /\ entry_out' = Aged(sys_stdout)
    /\ entry_err' = Aged(sys_stderr)
    /\ sigAt' = "none"
    /\ progExc' = "n/a"
    /\ ran' = FALSE
    /\ fault' = "none"
    /\ namespace' = {}
    /\ leftover' = leftover \cup namespace
    /\ sigOf' = "none"
    /\ UNCHANGED <<handler, stale>>

\* The call ends by propagating exception e to its caller.
RaiseToCaller(e) ==
    /\ pc' = "done"
    /\ outcome' = "raised"
    /\ exc' = e
    /\ result' = NoResult


\* ------------------------------------------------- results of run_tests
\* The values of the status key (lines 159, 181, 207, 240).
Statuses == {"passed", "failed", "timeout", "error"}

Message(text, line, src) == [text |-> text, line |-> line, code |-> src]

\* The passed result with an error key, as execute_python_code always has.
PassedResultWithError(n) ==
    [status |-> "passed", success |-> TRUE, error |-> "",
     message |-> Message("All tests executed successfully", 0, "")]

\* lines 158-169: the result of a run that raised nothing; n markers were
\* captured on stdout.
PassedResult(n) ==
    LET base == [status |-> "passed", success |-> TRUE,
                 message |-> Message("All tests executed successfully", 0, "")]
    IN IF n > 0 THEN base @@ [stdout |-> n] ELSE base

\* lines 180-186
TimeoutResult ==
    [status |-> "timeout", success |-> FALSE,
     message |-> Message("Test execution timed out", 0, ""),
     error |-> "TimeoutError", traceback |-> "format_exc"]

\* lines 198-204 and 231-237: for frame in reversed(tb): the index of the
\* last frame whose file name is '<string>', 0 when there is none.
RECURSIVE LastStringFrame(_, _)
LastStringFrame(tb, i) ==
    IF i = 0 THEN 0
    ELSE IF tb[i].filename = "<string>" THEN i
    ELSE LastStringFrame(tb, i - 1)

\* error_line_num after the loop (0 stands for None).
error_line_num(tb) ==
    LET i == LastStringFrame(tb, Len(tb))
    IN IF i = 0 THEN 0 ELSE tb[i].lineno

\* error_code after the loop ("" stands for None: both are falsy).
error_code(tb, lines) ==
    LET n == error_line_num(tb)
    IN IF 0 < n /\ n <= Len(lines) THEN strip(lines[n]) ELSE ""

\* lines 206-219 and 239-252: the result of a failed or erroneous run.
FailureResult(status, text, errname, tb, lines) ==
    LET n   == error_line_num(tb)
        src == error_code(tb, lines)
        base == [status |-> status, success |-> FALSE, error |-> errname,
                 message |-> IF src # "" THEN Message(text, n, src)
                             ELSE Message(text, 0, "")]
        withLine == IF n # 0 THEN base @@ [error_line |-> n] ELSE base
    IN IF src # "" THEN withLine @@ [error_code |-> src] ELSE withLine

\* The except clauses in the wrong order: `except Exception` first.
RtHandlerPcExceptionFirst(cls) ==
    IF IsException(cls) THEN "rt_h_exc" ELSE "rt_ofin"

\* The except clause of run_tests (lines 177, 188, 221) that catches an
\* exception of class cls; "rt_ofin" when none does and only the outer
\* finally runs.
RtHandlerPc(cls) ==
    IF cls = "agent.TimeoutError" THEN "rt_h_timeout"
    ELSE IF cls = "AssertionError" THEN "rt_h_assert"
    ELSE IF IsException(cls) THEN "rt_h_exc"
    ELSE "rt_ofin"

\* ---------------------------------------------------- steps of run_tests
\* lines 129-131: the two files are read, or a read fails.
RtRead ==
    /\ pc = "rt_read"
    /\ \/ /\ pc' = "rt_arm"
          /\ UNCHANGED <<exc, result, outcome, fault>>
       \/ /\ fault' = "read"
          /\ RaiseToCaller([cls |-> "OSError", tb |-> <<>>, lineno |-> 0])
    /\ UNCHANGED <<fn, code, test, ip, tick, alarm, handler, sys_stdout,
                   sys_stderr, old_stdout, old_stderr, outbuf, entry_out,
                   entry_err, sigAt, progExc, ran, stale,
                   namespace, leftover, sigOf, others>>

\* lines 138-139: the handler is installed and the alarm armed; signal.signal
\* raises ValueError outside the main thread.
RtArm ==
    /\ pc = "rt_arm"
    /\ \/ /\ handler' = "agent.timeout_handler"
          /\ alarm' = signal_alarm(timeout_seconds, fn)
          /\ pc' = "rt_ns"
          /\ UNCHANGED <<exc, result, outcome, fault>>
       \/ /\ fault' = "signal"
          /\ RaiseToCaller([cls |-> "ValueError", tb |-> <<>>, lineno |-> 0])
          /\ UNCHANGED <<handler, alarm>>
    /\ UNCHANGED <<fn, code, test, ip, tick, sys_stdout, sys_stderr,
                   old_stdout, old_stderr, outbuf, entry_out, entry_err, sigAt,
                   progExc, ran, stale,
                   namespace, leftover, sigOf, others>>

\* line 143
RtNamespace ==
    /\ pc = "rt_ns"
    /\ namespace' = FreshNamespace
    /\ pc' = "rt_save"
    /\ UNCHANGED <<fn, code, test, ip, tick, alarm, handler, sys_stdout,
                   sys_stderr, old_stdout, old_stderr, outbuf, exc, result,
                   outcome, entry_out, entry_err, sigAt, progExc, ran, fault, stale,
                   leftover, sigOf, others>>

\* lines 146-147
RtSave ==
    /\ pc = "rt_save"
    /\ old_stdout' = sys_stdout
    /\ old_stderr' = sys_stderr
    /\ pc' = "rt_redir_out"
    /\ UNCHANGED <<fn, code, test, ip, tick, alarm, handler, sys_stdout,
                   sys_stderr, outbuf, exc, result, outcome, entry_out,
                   entry_err, sigAt, progExc, ran, fault, stale,
                   namespace, leftover, sigOf, others>>

\* line 148
RtRedirectOut ==
    /\ pc = "rt_redir_out"
    /\ sys_stdout' = "own"
    /\ pc' = "rt_redir_err"
    /\ UNCHANGED <<fn, code, test, ip, tick, alarm, handler, sys_stderr,
                   old_stdout, old_stderr, outbuf, exc, result, outcome,
                   entry_out, entry_err, sigAt, progExc, ran, fault, stale,
                   namespace, leftover, sigOf, others>>

\* line 149; the next statement is exec (line 152)
RtRedirectErr ==
    /\ pc = "rt_redir_err"
    /\ sys_stderr' = "own"
    /\ pc' = "rt_exec"
    /\ ip' = 0
    /\ UNCHANGED <<fn, code, test, tick, alarm, handler, sys_stdout,
                   old_stdout, old_stderr, outbuf, exc, result, outcome,
                   entry_out, entry_err, sigAt, progExc, ran, fault, stale,
                   namespace, leftover, sigOf, others>>

\* lines 155-169: the passed result is built and returned; the return runs
\* the finally blocks first.
RtBuild ==
    /\ pc = "rt_build"
    /\ result' = PassedResult(outbuf)
    /\ pc' = "rt_fin_out"
    /\ UNCHANGED <<fn, code, test, ip, tick, alarm, handler, sys_stdout,
                   sys_stderr, old_stdout, old_stderr, outbuf, exc, outcome,
                   entry_out, entry_err, sigAt, progExc, ran, fault, stale,
                   namespace, leftover, sigOf, others>>

\* line 172
RtFinallyOut ==
    /\ pc = "rt_fin_out"
    /\ sys_stdout' = old_stdout
    /\ pc' = "rt_fin_err"
    /\ UNCHANGED <<fn, code, test, ip, tick, alarm, handler, sys_stderr,
                   old_stdout, old_stderr, outbuf, exc, result, outcome,
                   entry_out, entry_err, sigAt, progExc, ran, fault, stale,
                   namespace, leftover, sigOf, others>>

\* line 173
RtFinallyErr ==
    /\ pc = "rt_fin_err"
    /\ sys_stderr' = old_stderr
    /\ pc' = "rt_fin_alarm"
    /\ UNCHANGED <<fn, code, test, ip, tick, alarm, handler, sys_stdout,
                   old_stdout, old_stderr, outbuf, exc, result, outcome,
                   entry_out, entry_err, sigAt, progExc, ran, fault, stale,
                   namespace, leftover, sigOf, others>>

\* line 175, then the pending return goes on to the outer finally, or the
\* pending exception to the except clause that matches it.
RtFinallyAlarm ==
    /\ pc = "rt_fin_alarm"
    /\ alarm' = signal_alarm(0, fn)
    /\ pc' = IF exc = NoExc THEN "rt_ofin" ELSE RtHandlerPc(exc.cls)
    /\ UNCHANGED <<fn, code, test, ip, tick, handler, sys_stdout,
                   sys_stderr, old_stdout, old_stderr, outbuf, exc, result,
                   outcome, entry_out, entry_err, sigAt, progExc, ran, fault, stale,
                   namespace, leftover, sigOf, others>>

\* lines 179, 190, 223: the first statement of each except clause
RtHandlerAlarm ==
    /\ pc \in {"rt_h_timeout", "rt_h_assert", "rt_h_exc"}
    /\ alarm' = signal_alarm(0, fn)
    /\ pc' = CASE pc = "rt_h_timeout" -> "rt_h_timeout_body"
               [] pc = "rt_h_assert"  -> "rt_h_assert_body"
               [] pc = "rt_h_exc"     -> "rt_h_exc_body"
    /\ UNCHANGED <<fn, code, test, ip, tick, handler, sys_stdout,
                   sys_stderr, old_stdout, old_stderr, outbuf, exc, result,
                   outcome, entry_out, entry_err, sigAt, progExc, ran, fault, stale,
                   namespace, leftover, sigOf, others>>

\* lines 180-186, 193-219, 226-252: the rest of each except clause
RtHandlerBody ==
    /\ pc \in {"rt_h_timeout_body", "rt_h_assert_body", "rt_h_exc_body"}
    /\ result' =
          CASE pc = "rt_h_timeout_body" -> TimeoutResult
            [] pc = "rt_h_assert_body" ->
                 FailureResult("failed", "Test failed", "AssertionError",
                               exc.tb, full_code_lines(code, test))
            [] pc = "rt_h_exc_body" ->
                 FailureResult("error", "Execution error", TypeName(exc.cls),
                               exc.tb, full_code_lines(code, test))
    /\ pc' = "rt_ofin"
    /\ UNCHANGED <<fn, code, test, ip, tick, alarm, handler, sys_stdout,
                   sys_stderr, old_stdout, old_stderr, outbuf, exc, outcome,
                   entry_out, entry_err, sigAt, progExc, ran, fault, stale,
                   namespace, leftover, sigOf, others>>

\* line 256, then the call returns its result or lets the exception go on
RtOuterFinally ==
    /\ pc = "rt_ofin"
    /\ alarm' = signal_alarm(0, fn)
    /\ pc' = "done"
    /\ outcome' = IF result # NoResult THEN "returned" ELSE "raised"
    /\ UNCHANGED <<fn, code, test, ip, tick, handler, sys_stdout,
                   sys_stderr, old_stdout, old_stderr, outbuf, exc, result,
                   entry_out, entry_err, sigAt, progExc, ran, fault, stale,
                   namespace, leftover, sigOf, others>>


\* ------------------------------------------ results of execute_python_code
\* lines 38-43; output is the number of markers, error the leading part of
\* the error text ("" when empty).
InitialResult ==
    [success |-> FALSE, output |-> 0, error |-> "", tests_passed |-> FALSE]

\* The except clauses of execute_python_code with `except Exception` first.
EpHandlerPcExceptionFirst(cls) ==
    IF IsException(cls) THEN "ep_h_exc" ELSE "done"

\* The except clause of execute_python_code (lines 77, 83, 90) that catches
\* an exception of class cls; "done" when none does and the exception leaves
\* the call.
EpHandlerPc(cls) ==
    IF cls = "agents.TimeoutError" THEN "ep_h_timeout"
    ELSE IF cls = "AssertionError" THEN "ep_h_assert"
    ELSE IF IsException(cls) THEN "ep_h_exc"
    ELSE "done"

\* ------------------------------------------ steps of execute_python_code
\* lines 38-53
EpInit ==
    /\ pc = "ep_init"
    /\ result' = InitialResult
    /\ namespace' = FreshNamespace
    /\ pc' = "ep_arm"
    /\ UNCHANGED <<fn, code, test, ip, tick, alarm, handler, sys_stdout,
                   sys_stderr, old_stdout, old_stderr, outbuf, exc, outcome,
                   entry_out, entry_err, sigAt, progExc, ran, fault, stale,
                   leftover, sigOf, others>>

\* lines 57-59, inside the try: signal.signal raises ValueError outside the
\* main thread, and the except clause of line 90 catches it.
EpArm ==
    /\ pc = "ep_arm"
    /\ \/ /\ handler' = "agents.timeout_handler"
          /\ alarm' = signal_alarm(timeout_seconds, fn)
          /\ pc' = "ep_enter_out"
          /\ UNCHANGED <<exc, fault>>
       \/ /\ fault' = "signal"
          /\ exc' = [cls |-> "ValueError", tb |-> <<>>, lineno |-> 0]
          /\ pc' = EpHandlerPc("ValueError")
          /\ UNCHANGED <<handler, alarm>>
    /\ UNCHANGED <<fn, code, test, ip, tick, sys_stdout, sys_stderr,
                   old_stdout, old_stderr, outbuf, result, outcome, entry_out,
                   entry_err, sigAt, progExc, ran, stale,
                   namespace, leftover, sigOf, others>>

\* line 61: redirect_stdout.__enter__
EpEnterOut ==
    /\ pc = "ep_enter_out"
    /\ old_stdout' = sys_stdout
    /\ sys_stdout' = "own"
    /\ pc' = "ep_enter_err"
    /\ UNCHANGED <<fn, code, test, ip, tick, alarm, handler, sys_stderr,
                   old_stderr, outbuf, exc, result, outcome, entry_out,
                   entry_err, sigAt, progExc, ran, fault, stale,
                   namespace, leftover, sigOf, others>>

\* line 61: redirect_stderr.__enter__; the next statement is exec (line 63)
EpEnterErr ==
    /\ pc = "ep_enter_err"
    /\ old_stderr' = sys_stderr
    /\ sys_stderr' = "own"
    /\ pc' = "ep_exec_code"
    /\ ip' = 0
    /\ UNCHANGED <<fn, code, test, tick, alarm, handler, sys_stdout,
                   old_stdout, outbuf, exc, result, outcome, entry_out,
                   entry_err, sigAt, progExc, ran, fault, stale,
                   namespace, leftover, sigOf, others>>

\* end of the with block: redirect_stderr.__exit__
EpExitErr ==
    /\ pc = "ep_exit_err"
    /\ sys_stderr' = old_stderr
    /\ pc' = "ep_exit_out"
    /\ UNCHANGED <<fn, code, test, ip, tick, alarm, handler, sys_stdout,
                   old_stdout, old_stderr, outbuf, exc, result, outcome,
                   entry_out, entry_err, sigAt, progExc, ran, fault, stale,
                   namespace, leftover, sigOf, others>>

\* end of the with block: redirect_stdout.__exit__; then line 70, or the
\* except clause matching the pending exception, or out of the call.
EpExitOut ==
    /\ pc = "ep_exit_out"
    /\ sys_stdout' = old_stdout
    /\ pc' = IF exc = NoExc THEN "ep_cancel" ELSE EpHandlerPc(exc.cls)
    /\ outcome' = IF pc' = "done" THEN "raised" ELSE outcome
    /\ result' = IF pc' = "done" THEN NoResult ELSE result
    /\ UNCHANGED <<fn, code, test, ip, tick, alarm, handler, sys_stderr,
                   old_stdout, old_stderr, outbuf, exc, entry_out, entry_err,
                   sigAt, progExc, ran, fault, stale,
                   namespace, leftover, sigOf, others>>

\* lines 70-71
EpCancel ==
    /\ pc = "ep_cancel"
    /\ alarm' = signal_alarm(0, fn)
    /\ pc' = "ep_ok"
    /\ UNCHANGED <<fn, code, test, ip, tick, handler, sys_stdout,
                   sys_stderr, old_stdout, old_stderr, outbuf, exc, result,
                   outcome, entry_out, entry_err, sigAt, progExc, ran, fault, stale,
                   namespace, leftover, sigOf, others>>

\* lines 73-75
EpOk ==
    /\ pc = "ep_ok"
    /\ result' = [result EXCEPT !.success = TRUE, !.output = outbuf,
                                !.tests_passed = TRUE]
    /\ pc' = "ep_ret"
    /\ UNCHANGED <<fn, code, test, ip, tick, alarm, handler, sys_stdout,
                   sys_stderr, old_stdout, old_stderr, outbuf, exc, outcome,
                   entry_out, entry_err, sigAt, progExc, ran, fault, stale,
                   namespace, leftover, sigOf, others>>

\* lines 78-79, 84-85, 91-92: the first statement of each except clause
EpHandlerAlarm ==
    /\ pc \in {"ep_h_timeout", "ep_h_assert", "ep_h_exc"}
    /\ alarm' = signal_alarm(0, fn)
    /\ pc' = CASE pc = "ep_h_timeout" -> "ep_h_timeout_body"
               [] pc = "ep_h_assert"  -> "ep_h_assert_body"
               [] pc = "ep_h_exc"     -> "ep_h_exc_body"
    /\ UNCHANGED <<fn, code, test, ip, tick, handler, sys_stdout,
                   sys_stderr, old_stdout, old_stderr, outbuf, exc, result,
                   outcome, entry_out, entry_err, sigAt, progExc, ran, fault, stale,
                   namespace, leftover, sigOf, others>>

\* lines 80-81, 86-88, 93-94: the rest of each except clause
EpHandlerBody ==
    /\ pc \in {"ep_h_timeout_body", "ep_h_assert_body", "ep_h_exc_body"}
    /\ result' =
          CASE pc = "ep_h_timeout_body" ->
                 [result EXCEPT !.error = "Timeout", !.output = outbuf]
            [] pc = "ep_h_assert_body" ->
                 [result EXCEPT !.error = "Test failed", !.output = outbuf,
                                !.tests_passed = FALSE]
            [] pc = "ep_h_exc_body" ->
                 [result EXCEPT !.error = TypeName(exc.cls), !.output = outbuf]
    /\ pc' = "ep_ret"
    /\ UNCHANGED <<fn, code, test, ip, tick, alarm, handler, sys_stdout,
                   sys_stderr, old_stdout, old_stderr, outbuf, exc, outcome,
                   entry_out, entry_err, sigAt, progExc, ran, fault, stale,
                   namespace, leftover, sigOf, others>>

\* line 96
EpReturn ==
    /\ pc = "ep_ret"
    /\ pc' = "done"
    /\ outcome' = "returned"
    /\ UNCHANGED <<fn, code, test, ip, tick, alarm, handler, sys_stdout,
                   sys_stderr, old_stdout, old_stderr, outbuf, exc, result,
                   entry_out, entry_err, sigAt, progExc, ran, fault, stale,
                   namespace, leftover, sigOf, others>>

\* ------------------------------------------------------------------ exec
InExec == pc \in {"rt_exec", "ep_exec_code", "ep_exec_test"}

\* The text given to the exec call at pc: run_tests runs the combined
\* program (line 152), execute_python_code runs code (line 63) and then
\* test_code (line 67).
Unit ==
    CASE pc = "ep_exec_code" -> code
      [] pc = "ep_exec_test" -> test
      [] OTHER -> full_code_lines(code, test)

\* Where control is once an exception has left exec: the inner finally of
\* run_tests, the exit of the with block of execute_python_code.
AfterExecRaise == IF fn = "run_tests" THEN "rt_fin_out" ELSE "ep_exit_err"

\* The traceback of an exception raised at line n of the text under exec.
\* Only run_tests reads it.
Tracebacks(n) ==
    IF fn = "run_tests"
    THEN {<<RunnerFrame, OwnFrame(n)>> \o d : d \in DeepFrames(Unit, n)}
    ELSE {<<>>}

\* exec compiles the whole text first: a text that does not parse raises
\* SyntaxError before any statement runs; its traceback has no frame of the
\* text.
ExecCompile ==
    /\ InExec
    /\ ip = 0
    /\ IF Parses(Unit)
       THEN /\ ip' = 1
            /\ UNCHANGED <<pc, exc, progExc>>
       ELSE /\ exc' = [cls |-> "SyntaxError",
                       tb |-> IF fn = "run_tests" THEN <<RunnerFrame>> ELSE <<>>,
                       lineno |-> FirstBad(Unit, 1)]
            /\ progExc' = "SyntaxError"
            /\ pc' = AfterExecRaise
            /\ UNCHANGED ip
    /\ UNCHANGED <<fn, code, test, tick, alarm, handler, sys_stdout,
                   sys_stderr, old_stdout, old_stderr, outbuf, result, outcome,
                   entry_out, entry_err, sigAt, ran, fault, stale,
                   namespace, leftover, sigOf, others>>

\* One statement of the program runs.
ExecStmt ==
    /\ InExec
    /\ ip \in 1..Len(Unit)
    /\ LET s == Unit[ip].stmt IN
       CASE s = "blank" ->
              /\ ip' = ip + 1
              /\ UNCHANGED <<pc, exc, progExc, outbuf, tick, ran>>
         [] s = "print" ->
              /\ ip' = ip + 1
              /\ outbuf' = outbuf + 1
              /\ ran' = TRUE
              /\ UNCHANGED <<pc, exc, progExc, tick>>
         [] s = "def" ->
              /\ ip' = ip + 1
              /\ ran' = TRUE
              /\ UNCHANGED <<pc, exc, progExc, outbuf, tick>>
         [] s \in {"loop", "loop_catch"} ->
              /\ tick' = 1 - tick
              /\ ran' = TRUE
              /\ UNCHANGED <<pc, ip, exc, progExc, outbuf>>
         [] s = "use" /\ DefName \in namespace ->
              /\ ip' = ip + 1
              /\ ran' = TRUE
              /\ UNCHANGED <<pc, exc, progExc, outbuf, tick>>
         [] OTHER ->
              /\ \E tb \in Tracebacks(ip) :
                    exc' = [cls |-> Raises(s), tb |-> tb, lineno |-> 0]
              /\ progExc' = Raises(s)
              /\ pc' = AfterExecRaise
              /\ ran' = TRUE
              /\ UNCHANGED <<ip, outbuf, tick>>
    /\ namespace' = IF Unit[ip].stmt = "def" THEN namespace \cup {DefName}
                    ELSE namespace
    /\ UNCHANGED <<fn, code, test, alarm, handler, sys_stdout,
                   sys_stderr, old_stdout, old_stderr, result, outcome,
                   entry_out, entry_err, sigAt, fault, stale,
                   leftover, sigOf, others>>

\* exec returns: the text ran to its end.
ExecReturn ==
    /\ InExec
    /\ ip = Len(Unit) + 1
    /\ IF pc = "ep_exec_code" /\ Truthy(test)
       THEN /\ pc' = "ep_exec_test"       \* lines 66-67
            /\ ip' = 0
            /\ UNCHANGED progExc
       ELSE /\ pc' = IF fn = "run_tests" THEN "rt_build" ELSE "ep_exit_err"
            /\ progExc' = "none"
            /\ UNCHANGED ip
    /\ UNCHANGED <<fn, code, test, tick, alarm, handler, sys_stdout,
                   sys_stderr, old_stdout, old_stderr, outbuf, exc, result,
                   outcome, entry_out, entry_err, sigAt, ran, fault, stale,
                   namespace, leftover, sigOf, others>>


\* ------------------------------------------------------ the alarm signal
RtOuterTryOnly == {"rt_ns", "rt_save", "rt_redir_out", "rt_redir_err"}
RtInnerFinally == {"rt_fin_out", "rt_fin_err", "rt_fin_alarm"}
RtHandlers     == {"rt_h_timeout", "rt_h_assert", "rt_h_exc",
                   "rt_h_timeout_body", "rt_h_assert_body", "rt_h_exc_body"}
EpHandlers     == {"ep_h_timeout", "ep_h_assert", "ep_h_exc",
                   "ep_h_timeout_body", "ep_h_assert_body", "ep_h_exc_body"}

\* Where control goes when the handler raises an exception of class cls
\* just before the statement at p: the try statements enclosing p decide.
FireTarget(p, cls) ==
    CASE p \in {"rt_read", "rt_arm", "rt_ofin"}   -> "done"
      [] p \in RtOuterTryOnly                     -> RtHandlerPc(cls)
      [] p \in {"rt_exec", "rt_build"}            -> "rt_fin_out"
      [] p \in RtInnerFinally                     -> RtHandlerPc(cls)
      [] p \in RtHandlers                         -> "rt_ofin"
      [] p \in {"ep_init", "ep_ret"}              -> "done"
      [] p \in {"ep_arm", "ep_enter_out", "ep_cancel", "ep_ok", "ep_exit_out"}
                                                  -> EpHandlerPc(cls)
      [] p \in {"ep_enter_err", "ep_exit_err"}    -> "ep_exit_out"
      [] p \in {"ep_exec_code", "ep_exec_test"}   -> "ep_exit_err"
      [] p \in EpHandlers                         -> "done"

\* The program statement being run catches the exception and goes on.
Swallows ==
    /\ InExec
    /\ ip \in 1..Len(Unit)
    /\ Unit[ip].stmt = "loop_catch"

\* SIGALRM is delivered during a call: the alarm is spent and the installed
\* handler (timeout_handler) raises its TimeoutError at the current statement.
Fire ==
    /\ alarm # NoAlarm
    /\ pc \notin {"idle", "done"}
    /\ alarm' = NoAlarm
    /\ sigAt' = pc
    /\ sigOf' = alarm.of
    /\ IF Swallows
       THEN UNCHANGED <<pc, exc, result, outcome, progExc>>
       ELSE /\ pc' = FireTarget(pc, HandlerRaises)
            /\ exc' = [cls |-> HandlerRaises,
                       tb |-> IF pc = "rt_exec" /\ ip \in 1..Len(Unit)
                              THEN <<RunnerFrame, OwnFrame(ip)>> ELSE <<>>,
                       lineno |-> 0]
            /\ result' = IF fn = "run_tests" \/ pc' = "done" THEN NoResult ELSE result
            /\ outcome' = IF pc' = "done" THEN "raised" ELSE outcome
            /\ progExc' = IF InExec THEN HandlerRaises ELSE progExc
    /\ UNCHANGED <<fn, code, test, ip, tick, handler, sys_stdout,
                   sys_stderr, old_stdout, old_stderr, outbuf, entry_out,
                   entry_err, ran, fault, stale,
                   namespace, leftover, others>>

\* SIGALRM is delivered when the call that armed it has ended.
StaleFire ==
    /\ alarm # NoAlarm
    /\ pc \in {"idle", "done"}
    /\ alarm' = NoAlarm
    /\ stale' = TRUE
    /\ UNCHANGED <<fn, pc, code, test, ip, tick, handler, sys_stdout,
                   sys_stderr, old_stdout, old_stderr, outbuf, exc, result,
                   outcome, entry_out, entry_err, sigAt, progExc, ran, fault,
                   namespace, leftover, sigOf, others>>

\* ------------------------------------------------------- specification
NoPrev == [fn |-> "none"]

\* No pair of calls is in progress.
PairIdle == prev = NoPrev

Verifiers == {"run_tests", "execute_python_code"}

\* A step of the call in progress.
Step ==
    \/ RtRead \/ RtArm \/ RtNamespace \/ RtSave \/ RtRedirectOut
    \/ RtRedirectErr \/ RtBuild \/ RtFinallyOut \/ RtFinallyErr
    \/ RtFinallyAlarm \/ RtHandlerAlarm \/ RtHandlerBody \/ RtOuterFinally
    \/ EpInit \/ EpArm \/ EpEnterOut \/ EpEnterErr \/ EpExitErr \/ EpExitOut
    \/ EpCancel \/ EpOk \/ EpHandlerAlarm \/ EpHandlerBody \/ EpReturn
    \/ ExecCompile \/ ExecStmt \/ ExecReturn

\* The caller, between two calls, invokes a verifier on some pair of texts.
NewCall ==
    /\ pc = "idle"
    /\ \E f \in Verifiers, in \in Inputs : Call(f, in[1], in[2])

allVars == <<vars, others>>

\* A source text: what it says, and whether white space surrounds it.
Bodies == {"buggy", "fix"}
SourceTexts == [body : Bodies, pad : BOOLEAN]
NoText == [body |-> "", pad |-> FALSE]

\* fix_bug has not been called.
BugFixIdle ==
    /\ bf_node = "off"
    /\ bf_messages = <<>>
    /\ buggy_code = NoText
    /\ fixed_code = NoText
    /\ iteration = 0
    /\ max_iterations = 0
    /\ bf_ret = NoText
    /\ bf_runs = 0
    /\ bf_hist = [same |-> TRUE, failing |-> TRUE]

\* process_single_row has not been called.
GraphIdle ==
    /\ g_node = "off"
    /\ g_file = ""
    /\ g_other = ""
    /\ g_messages = <<>>
    /\ g_verdict = "none"
    /\ g_exc = "none"
    /\ g_ret = ""
    /\ g_asked = "n/a"
    /\ g_res = [outs |-> <<>>, bad |-> 0, file0 |-> ""]

Init ==
    /\ VerifierInit
    /\ PairIdle
    /\ BugFixIdle
    /\ GraphIdle
    /\ RestIdle

Next ==
    \/ NewCall /\ UNCHANGED others
    \/ Step
    \/ Return /\ UNCHANGED others
    \/ Fire
    \/ StaleFire

Spec == Init /\ [][Next]_allVars

\* The interpreter keeps running the call in progress and the kernel
\* delivers a pending alarm.
FairSpec == Spec /\ WF_vars(Step) /\ WF_vars(Fire) /\ WF_vars(StaleFire)

\* ------------------------------------------- two calls on the same texts
\* How the call that has just ended ended: the outcome kind and the
\* exception kind its caller sees.
OutcomeKind ==
    IF outcome = "raised" THEN <<"raised", TypeName(exc.cls)>>
    ELSE IF fn = "run_tests"
         THEN <<result.status,
                IF "error" \in DOMAIN result THEN result.error ELSE "">>
         ELSE <<IF result.success THEN "success" ELSE "failure", result.error>>

\* The statement at which the alarm armed by this very call was delivered.
OwnSigAt == IF sigOf = "earlier" THEN "none" ELSE sigAt

\* The first call of a pair, on any texts.
FirstCall ==
    /\ pc = "idle"
    /\ prev = NoPrev
    /\ \E f \in Verifiers, in \in Inputs : Call(f, in[1], in[2])
    /\ UNCHANGED others

\* The second call of the pair: the same verifier on the same texts.
SecondCall ==
    /\ pc = "idle"
    /\ prev # NoPrev
    /\ Call(prev.fn, prev.code, prev.test)
    /\ UNCHANGED others

\* The caller takes the result: after the first call it keeps what it got,
\* after the second the pair is over.
PairReturn ==
    /\ Return
    /\ prev' = IF prev = NoPrev
               THEN [fn |-> fn, code |-> code, test |-> test,
                     kind |-> OutcomeKind, sig |-> OwnSigAt, fault |-> fault]
               ELSE NoPrev
    /\ UNCHANGED outsidePair

PairNext ==
    \/ FirstCall
    \/ SecondCall
    \/ Step
    \/ PairReturn
    \/ Fire
    \/ StaleFire

PairSpec == Init /\ [][PairNext]_allVars


\* ------------------------ BugFixAgent.fix_bug (src/agents/fix_bug_agent.py)
\* str.strip(): the text without the white space around it.
StripText(t) == [t EXCEPT !.pad = FALSE]

\* What a reply holds after the fence ```python: no fence at all, a fence
\* that is never closed, or a text between the two fences.
NoBlock == [kind |-> "none", text |-> NoText]
Blocks == {NoBlock, [kind |-> "open", text |-> NoText]}
            \cup [kind : {"closed"}, text : SourceTexts]

\* The text of a tool message: how run_code begins it (src/agents/tools.py
\* lines 132, 136), and whether the text it quotes from the run -- the error
\* with the failing statement (lines 137-138), the output (lines 139-140) --
\* holds the bytes that line 212 of fix_bug_agent.py looks for.
NoContent == [head |-> "", echo |-> FALSE]
ToolContents ==
    {[head |-> "U+2713 Success! All tests passed.", echo |-> FALSE],
     [head |-> "U+2717 Execution failed.", echo |-> FALSE],
     [head |-> "U+2717 Execution failed.", echo |-> TRUE]}

\* "U+00E2 U+0153 U+201C Success" in content (line 212): the three characters
\* are not the check mark U+2713 that run_code writes, so only quoted output
\* can hold them.
HasSuccessMarker(content) == content.echo

\* The prompt of lines 113-137: it names the tool and quotes the buggy code.
HumanMessage(b) ==
    [type |-> "human", tool |-> TRUE,
     block |-> [kind |-> "closed", text |-> b], content |-> NoContent]

\* AIMessage(content=response): tool tells whether the response holds the
\* text "execute_python_code".
AIMessage(tool, block) ==
    [type |-> "ai", tool |-> tool, block |-> block, content |-> NoContent]

ToolMessage(c) ==
    [type |-> "tool", tool |-> FALSE, block |-> NoBlock, content |-> c]

\* The responses of the language model, of the mock (lines 154-175) and the
\* text returned when the model fails (line 190).
Replies == {AIMessage(t, b) : t \in BOOLEAN, b \in Blocks}

\* _should_continue with `>` where the code has `>=`.
BugFixAgent_should_continue_late(msgs, it, max) ==
    LET n    == Len(msgs)
        last == msgs[n]
    IN IF it > max THEN "extract"
       ELSE IF last.type = "ai" /\ last.tool THEN "continue"
       ELSE IF last.type = "ai" /\ last.block.kind # "none" THEN "extract"
       ELSE IF n >= 2 /\ msgs[n - 1].type = "tool"
                      /\ HasSuccessMarker(msgs[n - 1].content) THEN "extract"
       ELSE IF it < max THEN "continue"
       ELSE "end"

\* _should_continue without the default of lines 216-217.
BugFixAgent_should_continue_no_default(msgs, it, max) ==
    LET n    == Len(msgs)
        last == msgs[n]
    IN IF it >= max THEN "extract"
       ELSE IF last.type = "ai" /\ last.tool THEN "continue"
       ELSE IF last.type = "ai" /\ last.block.kind # "none" THEN "extract"
       ELSE IF n >= 2 /\ msgs[n - 1].type = "tool"
                      /\ HasSuccessMarker(msgs[n - 1].content) THEN "extract"
       ELSE "end"

\* lines 192-219
BugFixAgent_should_continue(msgs, it, max) ==
    LET n    == Len(msgs)
        last == msgs[n]
    IN IF it >= max THEN "extract"
       ELSE IF last.type = "ai" /\ last.tool THEN "continue"
       ELSE IF last.type = "ai" /\ last.block.kind # "none" THEN "extract"
       ELSE IF n >= 2 /\ msgs[n - 1].type = "tool"
                      /\ HasSuccessMarker(msgs[n - 1].content) THEN "extract"
       ELSE IF it < max THEN "continue"
       ELSE "end"

\* lines 91-99: the node each answer of _should_continue leads to.
BugFixEdge(route) ==
    CASE route = "continue" -> "tools"
      [] route = "extract"  -> "extract_code"
      [] route = "end"      -> "END"

\* A search that looks at the last message only.
LastMessageBlock(msgs, i) ==
    IF i # 0 /\ msgs[i].type = "ai" /\ msgs[i].block.kind = "closed" THEN i
    ELSE 0

\* lines 226-230: for message in reversed(messages): the index of the
\* latest AIMessage in which the regular expression finds a closed block,
\* 0 when there is none.
RECURSIVE LatestBlock(_, _)
LatestBlock(msgs, i) ==
    IF i = 0 THEN 0
    ELSE IF msgs[i].type = "ai" /\ msgs[i].block.kind = "closed" THEN i
    ELSE LatestBlock(msgs, i - 1)

\* lines 249-260: fix_bug builds the initial state and invokes the graph,
\* whose entry point is the agent node.
BugFixInit ==
    /\ VerifierInit
    /\ PairIdle
    /\ GraphIdle
    /\ RestIdle
    /\ bf_node = "agent"
    /\ bf_messages = <<>>
    /\ buggy_code \in {t \in SourceTexts : t.body = "buggy"}
    /\ fixed_code = NoText
    /\ iteration = 0
    /\ max_iterations \in 1..MaxBudget
    /\ bf_ret = NoText
    /\ bf_runs = 0
    /\ bf_hist = [same |-> TRUE, failing |-> TRUE]

\* lines 105-152, then the conditional edge of lines 91-99.
BugFixAgent_agent_node ==
    /\ bf_node = "agent"
    /\ \E r \in Replies :
         LET msgs == (IF iteration = 0
                      THEN Append(bf_messages, HumanMessage(buggy_code))
                      ELSE bf_messages) \o <<r>>
         IN /\ bf_messages' = msgs
            /\ iteration' = iteration + 1
            /\ bf_node' = BugFixEdge(BugFixAgent_should_continue(
                                         msgs, iteration + 1, max_iterations))
            /\ bf_hist' = [bf_hist EXCEPT
                             !.same = @ /\ r.block = [kind |-> "closed",
                                                      text |-> buggy_code]]
    /\ bf_runs' = bf_runs + 1
    /\ UNCHANGED <<buggy_code, fixed_code, max_iterations, bf_ret>>
    /\ UNCHANGED outsideBugFix

\* lines 46, 86, 100: the node is langgraph's ToolNode, whose code is not
\* part of the repository. What it does to the messages is left open: it
\* adds a tool message, it leaves no message at all, or it raises; then the
\* edge tools -> agent.
BugFixAgent_tool_node ==
    /\ bf_node = "tools"
    /\ \/ \E c \in ToolContents :
            /\ bf_messages' = Append(bf_messages, ToolMessage(c))
            /\ bf_hist' = [bf_hist EXCEPT
                             !.failing = @ /\ c.head = "U+2717 Execution failed."]
            /\ bf_node' = "agent"
       \/ /\ bf_messages' = <<>>
          /\ bf_node' = "agent"
          /\ UNCHANGED bf_hist
       \/ /\ bf_node' = "raised"
          /\ UNCHANGED <<bf_messages, bf_hist>>
    /\ UNCHANGED <<buggy_code, fixed_code, iteration, max_iterations, bf_ret,
                   bf_runs>>
    /\ UNCHANGED outsideBugFix

\* lines 221-235, then the edge extract_code -> END.
BugFixAgent_extract_code_node ==
    /\ bf_node = "extract_code"
    /\ LET i == LatestBlock(bf_messages, Len(bf_messages))
       IN fixed_code' = IF i # 0 THEN StripText(bf_messages[i].block.text)
                        ELSE buggy_code
    /\ bf_node' = "END"
    /\ UNCHANGED <<bf_messages, buggy_code, iteration, max_iterations, bf_ret,
                   bf_runs, bf_hist>>
    /\ UNCHANGED outsideBugFix

\* line 262: return final_state.get("fixed_code", buggy_code); the key is
\* always there.
fix_bug_return ==
    /\ bf_node = "END"
    /\ bf_ret' = fixed_code
    /\ bf_node' = "returned"
    /\ UNCHANGED <<bf_messages, buggy_code, fixed_code, iteration,
                   max_iterations, bf_runs, bf_hist>>
    /\ UNCHANGED outsideBugFix

BugFixNext ==
    \/ BugFixAgent_agent_node
    \/ BugFixAgent_tool_node
    \/ BugFixAgent_extract_code_node
    \/ fix_bug_return

BugFixSpec == BugFixInit /\ [][BugFixNext]_allVars

\* graph.invoke runs the node that is due until the graph reaches END.
FairBugFixSpec == BugFixSpec /\ WF_allVars(BugFixNext)

\* ------------- BugFixAgent._should_continue applied to two graph states
\* The messages _should_continue can find at the end of state["messages"]:
\* the reply that the agent node has just appended (lines 146-150), and
\* before it the prompt, a tool message, or nothing.
BeforeReply ==
    {<<>>} \cup {<<ToolMessage(c)>> : c \in ToolContents}
           \cup {<<HumanMessage(b)>> : b \in {t \in SourceTexts : t.body = "buggy"}}

AgentStates ==
    [messages : {m \o <<r>> : m \in BeforeReply, r \in Replies},
     iteration : 1..MaxBudget,
     max_iterations : 1..MaxBudget]

\* The state with the text of its tool message replaced.
WithToolContent(st, c) ==
    IF Len(st.messages) = 2 /\ st.messages[1].type = "tool"
    THEN [st EXCEPT !.messages[1] = ToolMessage(c)]
    ELSE st

\* Two graph states that are the same but for the text of the tool message.
ShouldContinueInit ==
    /\ VerifierInit
    /\ PairIdle
    /\ BugFixIdle
    /\ GraphIdle
    /\ PoolIdle
    /\ EvalIdle
    /\ RunCodeIdle
    /\ LoaderIdle
    /\ RunIdle
    /\ CountIdle
    /\ PassIdle
    /\ PathIdle
    /\ sc_routes = <<>>
    /\ sc_states \in {<<st, WithToolContent(st, c)>> :
                          st \in AgentStates, c \in ToolContents}

\* fix_bug_agent.py lines 192-219, on each of the two states.
BugFixAgent_should_continue_twice ==
    /\ sc_routes = <<>>
    /\ sc_routes' = [i \in 1..2 |->
                       BugFixAgent_should_continue(sc_states[i].messages,
                                                   sc_states[i].iteration,
                                                   sc_states[i].max_iterations)]
    /\ UNCHANGED sc_states
    /\ UNCHANGED outsideShouldContinue

ShouldContinueSpec ==
    ShouldContinueInit /\ [][BugFixAgent_should_continue_twice]_allVars

\* ------------- process_single_row (src/agent/run.py) on src/agent/agent.py
\* The contents the code file can have: the buggy function written by
\* process_single_row (line 42) and a text written by the model.
Cands == {"buggy", "fix"}

\* tools_by_name (agent.py lines 61, 69)
ToolNames == {"read_file", "write_file", "run_tests"}

\* The file a tool call names: the code file of the task, whose path the
\* user message gives (run.py lines 53, 59), or any other file.
Paths == {"code", "other"}

\* A tool call of a reply: the name, and the arguments -- a path alone
\* ("path"), a path and the text to write, or a dictionary the tool's schema
\* rejects ("malformed").
ToolCalls ==
    {[name |-> "run_tests", args |-> "path", path |-> p] : p \in Paths}
      \cup {[name |-> "run_tests", args |-> "malformed", path |-> "code"]}
      \cup {[name |-> "read_file", args |-> "path", path |-> "code"]}
      \cup {[name |-> "write_file", args |-> a, path |-> "code"] :
                a \in Cands}
      \cup {[name |-> "write_file", args |-> "fix", path |-> "other"]}
      \cup {[name |-> "write_file", args |-> "malformed", path |-> "code"]}
      \cup {[name |-> "no_such_tool", args |-> "path", path |-> "code"]}

ToolCallLists == UNION {[1..n -> ToolCalls] : n \in 0..MaxCalls}

GMessage(type, name, content, calls) ==
    [type |-> type, name |-> name, content |-> content, tool_calls |-> calls]

\* run.py lines 56-61
UserMessage == GMessage("human", "", "Fix bugs in the code.", <<>>)

\* How a call of run_tests ends for its caller: one of the four verdicts, or
\* an exception that leaves it (a file that cannot be read; SystemExit raised
\* by the program).
RunRaises == {"OSError", "SystemExit"}
RunOutcomes == Statuses \cup RunRaises

\* except Exception (agent.py lines 107, 135; run.py line 81)
CaughtByExceptException(cls) == cls # "SystemExit"

\* The call is one that reaches the function run_tests.
RunsTests(call) == call.name = "run_tests" /\ call.args = "path"

\* Line 76 as it would be if a timeout verdict were raised as an error.
CallRaisesOnTimeout(call, r) ==
    IF call.name \notin ToolNames THEN "KeyError"
    ELSE IF call.args = "malformed" THEN "ValidationError"
    ELSE IF RunsTests(call) /\ r \in RunRaises THEN r
    ELSE IF RunsTests(call) /\ r = "timeout" THEN "TimeoutError"
    ELSE "none"

\* Line 76: the exception that tools_by_name[name].invoke(args) raises, "none"
\* when it returns; r is how run_tests would end.
CallRaises(call, r) ==
    IF call.name \notin ToolNames THEN "KeyError"
    ELSE IF call.args = "malformed" THEN "ValidationError"
    ELSE IF RunsTests(call) /\ r \in RunRaises THEN r
    ELSE "none"

\* The first call of the list that raises, 0 when none does.
RECURSIVE FirstRaising(_, _, _)
FirstRaising(calls, rs, i) ==
    IF i > Len(calls) THEN 0
    ELSE IF CallRaises(calls[i], rs[i]) # "none" THEN i
    ELSE FirstRaising(calls, rs, i + 1)

\* The content of the file at path p after the first n calls, file being
\* its content before them: write_file writes the file its arguments name.
WrittenAfter(calls, n, p, file) ==
    LET W == {i \in 1..n : calls[i].name = "write_file" /\ calls[i].path = p}
    IN IF W = {} THEN file
       ELSE calls[CHOOSE i \in W : \A j \in W : j <= i].args

\* The content of the code file after the first n calls.
FileAfter(calls, n, file) == WrittenAfter(calls, n, "code", file)

\* Lines 77-83: the tool message of call i.
ToolOutput(calls, rs, i, file) ==
    GMessage("tool", calls[i].name,
             CASE calls[i].name = "run_tests"  -> rs[i]
               [] calls[i].name = "read_file"  -> FileAfter(calls, i - 1, file)
               [] OTHER -> "File written successfully",
             <<>>)

NoRes == [outs |-> <<>>, bad |-> 0, file0 |-> ""]

\* run.py lines 36-71: the files are written, the graph is built and
\* streamed from its entry point read_code.
GraphInit ==
    /\ VerifierInit
    /\ PairIdle
    /\ BugFixIdle
    /\ RestIdle
    /\ g_node = "read_code"
    /\ g_file = "buggy"
    /\ g_other = ""
    /\ g_messages = <<UserMessage>>
    /\ g_verdict = "none"
    /\ g_exc = "none"
    /\ g_ret = ""
    /\ g_asked = "n/a"
    /\ g_res = NoRes

\* agent.py lines 88-114, then the edge read_code -> run_tests_initial.
read_code_node ==
    /\ g_node = "read_code"
    /\ g_messages' = Append(g_messages, GMessage("tool", "read_code", g_file, <<>>))
    /\ g_node' = "run_tests_initial"
    /\ UNCHANGED <<g_file, g_other, g_verdict, g_exc, g_ret, g_asked, g_res>>
    /\ UNCHANGED outsideGraph

\* agent.py lines 118-142, then the edge run_tests_initial -> agent.
run_tests_node ==
    /\ g_node = "run_tests_initial"
    /\ \E r \in RunOutcomes :
         IF r \in Statuses
         THEN /\ g_messages' = Append(g_messages,
                                     GMessage("tool", "run_tests", r, <<>>))
              /\ g_verdict' = r
              /\ g_node' = "agent"
              /\ UNCHANGED g_exc
         ELSE IF CaughtByExceptException(r)
         THEN /\ g_messages' = Append(g_messages,
                  GMessage("tool", "run_tests", "Error running tests", <<>>))
              /\ g_node' = "agent"
              /\ UNCHANGED <<g_verdict, g_exc>>
         ELSE /\ g_node' = "raised"
              /\ g_exc' = r
              /\ UNCHANGED <<g_messages, g_verdict>>
    /\ UNCHANGED <<g_file, g_other, g_ret, g_asked, g_res>>
    /\ UNCHANGED outsideGraph

\* agent.py lines 146-166: the model answers with a list of tool calls,
\* possibly empty, or the request fails; should_continue then picks tools
\* or END.
call_model ==
    /\ g_node = "agent"
    /\ \/ \E calls \in ToolCallLists :
            /\ g_messages' = <<GMessage("ai", "", "", calls)>>
            /\ g_node' = IF calls = <<>> THEN "END" ELSE "tools"
            /\ UNCHANGED g_exc
       \/ /\ g_node' = "raised"
          /\ g_exc' = "ConnectionError"
          /\ UNCHANGED g_messages
    /\ g_asked' = g_verdict
    /\ g_res' = NoRes
    /\ UNCHANGED <<g_file, g_other, g_verdict, g_ret>>
    /\ UNCHANGED outsideGraph

\* agent.py lines 73-84, then the edge tools -> agent. The calls run in
\* order; the first one that raises ends the node and the graph, the
\* outputs collected so far are dropped.
\* run_tests on a file that does not exist raises at readfile
\* (src/agent/tools.py line 129).  rs[i] is how run_tests ends in call i;
\* it is "passed" where it names nothing (the call is not one of run_tests,
\* or is never made).
tool_node ==
    /\ g_node = "tools"
    /\ LET calls == g_messages[Len(g_messages)].tool_calls
           n     == Len(calls)
       IN \E rs \in [1..n -> RunOutcomes] :
            /\ \A i \in 1..n : ~RunsTests(calls[i]) => rs[i] = "passed"
            /\ \A i \in 1..n :
                 (/\ RunsTests(calls[i])
                  /\ calls[i].path = "other"
                  /\ WrittenAfter(calls, i - 1, "other", g_other) = "")
                     => rs[i] = "OSError"
            /\ \A i \in 1..n :
                 (FirstRaising(calls, rs, 1) \in 1..(i - 1)) => rs[i] = "passed"
            /\ LET bad  == FirstRaising(calls, rs, 1)
                   done == IF bad = 0 THEN n ELSE bad - 1
                   V    == {i \in 1..done : RunsTests(calls[i])}
               IN /\ g_file' = FileAfter(calls, done, g_file)
                  /\ g_other' = WrittenAfter(calls, done, "other", g_other)
                  /\ g_res' = [outs |-> [i \in 1..n |->
                                           IF i > done /\ i # bad THEN "skipped"
                                           ELSE IF RunsTests(calls[i]) THEN rs[i]
                                           ELSE "n/a"],
                               bad |-> bad, file0 |-> g_file]
                  /\ IF bad = 0
                     THEN /\ g_messages' = g_messages \o
                                [i \in 1..n |-> ToolOutput(calls, rs, i, g_file)]
                          /\ g_verdict' = IF V = {} THEN g_verdict
                                          ELSE rs[CHOOSE i \in V : \A j \in V : j <= i]
                          /\ g_node' = "agent"
                          /\ UNCHANGED g_exc
                     ELSE /\ g_node' = "raised"
                          /\ g_exc' = CallRaises(calls[bad], rs[bad])
                          /\ UNCHANGED <<g_messages, g_verdict>>
    /\ UNCHANGED <<g_ret, g_asked>>
    /\ UNCHANGED outsideGraph

\* run.py lines 72-87: after the stream the code file is read and returned;
\* an Exception out of the stream is answered with the buggy function, any
\* other exception leaves process_single_row.
process_single_row_end ==
    /\ g_node \in {"END", "raised"}
    /\ IF g_node = "END"
       THEN g_ret' = g_file /\ g_node' = "returned"
       ELSE IF CaughtByExceptException(g_exc)
       THEN g_ret' = "buggy" /\ g_node' = "returned"
       ELSE g_ret' = g_ret /\ g_node' = "propagated"
    /\ UNCHANGED <<g_file, g_other, g_messages, g_verdict, g_exc, g_asked,
                   g_res>>
    /\ UNCHANGED outsideGraph

GraphNext ==
    \/ read_code_node
    \/ run_tests_node
    \/ call_model
    \/ tool_node
    \/ process_single_row_end

GraphSpec == GraphInit /\ [][GraphNext]_allVars

\* ----------------------- run (src/agent/run.py): the rows and their files
MaxRows == 2       \* rows of the dataset still to be processed

\* run.py line 114
NUM_WORKERS == 1

\* A task_id is the sequence of the parts that "/" separates in it.
TaskIds == {<<"Python", "1">>, <<"Python", "2">>, <<"Java", "1">>, <<"1">>}

\* line 26: row_data['task_id'].split("/")[-1]
TaskIdOf(id) == id[Len(id)]

\* lines 37-38 and 45: the names of the two files of a task.
code_filepath(id) == [dir |-> "code", name |-> <<"code_", TaskIdOf(id), ".py">>]
test_backup_filepath(id) ==
    [dir |-> "test", name |-> <<"test_", TaskIdOf(id), ".py">>]

FileNames == {code_filepath(id) : id \in TaskIds}
                \cup {test_backup_filepath(id) : id \in TaskIds}

\* The rows of the dataset: their task_id values are distinct.
RowSets ==
    UNION {{r \in [1..n -> TaskIds] :
              \A i, j \in 1..n : i # j => r[i] # r[j]} : n \in 1..MaxRows}

\* lines 144-156 and 175-178: every row is submitted to the pool.
PoolInit ==
    /\ VerifierInit
    /\ PairIdle
    /\ BugFixIdle
    /\ GraphIdle
    /\ ShouldContinueIdle
    /\ EvalIdle
    /\ RunCodeIdle
    /\ LoaderIdle
    /\ RunIdle
    /\ CountIdle
    /\ PassIdle
    /\ PathIdle
    /\ p_rows \in RowSets
    /\ p_pc = [i \in DOMAIN p_rows |-> "queued"]
    /\ p_writers = [f \in FileNames |-> {}]
    /\ p_readers = [f \in FileNames |-> {}]

Running == {i \in DOMAIN p_rows : p_pc[i] \notin {"queued", "done"}}

\* A worker of the pool that is free takes a queued row (line 175:
\* max_workers=NUM_WORKERS) and enters process_single_row.
PoolStart ==
    /\ Cardinality(Running) < NUM_WORKERS
    /\ \E i \in DOMAIN p_rows :
         /\ p_pc[i] = "queued"
         /\ p_pc' = [p_pc EXCEPT ![i] = "write_code"]
    /\ UNCHANGED <<p_rows, p_writers, p_readers>>
    /\ UNCHANGED outsidePool

\* lines 37-42: the buggy function is written to the code file.
WriteCodeFile ==
    /\ \E i \in DOMAIN p_rows :
         /\ p_pc[i] = "write_code"
         /\ p_writers' = [p_writers EXCEPT ![code_filepath(p_rows[i])] =
                                            @ \cup {<<i, "buggy_function">>}]
         /\ p_pc' = [p_pc EXCEPT ![i] = "write_test"]
    /\ UNCHANGED <<p_rows, p_readers>>
    /\ UNCHANGED outsidePool

\* lines 45-47: the test is written to the test file.
WriteTestFile ==
    /\ \E i \in DOMAIN p_rows :
         /\ p_pc[i] = "write_test"
         /\ p_writers' = [p_writers EXCEPT
                            ![test_backup_filepath(p_rows[i])] =
                                 @ \cup {<<i, "test_text">>}]
         /\ p_pc' = [p_pc EXCEPT ![i] = "stream"]
    /\ UNCHANGED <<p_rows, p_readers>>
    /\ UNCHANGED outsidePool

\* lines 67-72, a tools step of the graph on the path of lines 53, 59:
\* write_file overwrites the code file.
StreamWriteFile ==
    /\ \E i \in DOMAIN p_rows :
         /\ p_pc[i] = "stream"
         /\ p_writers' = [p_writers EXCEPT ![code_filepath(p_rows[i])] =
                                            @ \cup {<<i, "candidate">>}]
    /\ UNCHANGED <<p_rows, p_pc, p_readers>>
    /\ UNCHANGED outsidePool

\* lines 67-72, run_tests on that path (src/agent/tools.py lines 129-131):
\* the code file and the test file are read.
StreamRunTests ==
    /\ \E i \in DOMAIN p_rows :
         /\ p_pc[i] = "stream"
         /\ p_readers' = [p_readers EXCEPT
                            ![code_filepath(p_rows[i])] = @ \cup {i},
                            ![test_backup_filepath(p_rows[i])] = @ \cup {i}]
    /\ UNCHANGED <<p_rows, p_pc, p_writers>>
    /\ UNCHANGED outsidePool

\* lines 75-79: the code file is read back and returned.
ReadFixedCode ==
    /\ \E i \in DOMAIN p_rows :
         /\ p_pc[i] = "stream"
         /\ p_readers' = [p_readers EXCEPT ![code_filepath(p_rows[i])] = @ \cup {i}]
         /\ p_pc' = [p_pc EXCEPT ![i] = "done"]
    /\ UNCHANGED <<p_rows, p_writers>>
    /\ UNCHANGED outsidePool

PoolNext ==
    \/ PoolStart
    \/ WriteCodeFile
    \/ WriteTestFile
    \/ StreamWriteFile
    \/ StreamRunTests
    \/ ReadFixedCode

PoolSpec == PoolInit /\ [][PoolNext]_allVars

\* ------- the same texts under run_tests and under src/eval/evaluation.py
\* The statements of the model begin with a name or a keyword and end with
\* one: written one after the other on a single line they do not parse. A
\* line joined to the empty line is the line itself.
Joined(a, b) ==
    IF b = EmptyLine THEN a
    ELSE IF a = EmptyLine THEN b
    ELSE [stmt |-> "bad", pad |-> FALSE]

\* evaluation.py line 75: full_code = code + row['test'], as lines: the last
\* line of the code and the first line of the test are one line.
eval_full_code_lines(c, t) ==
    SubSeq(c, 1, Len(c) - 1) \o <<Joined(c[Len(c)], t[1])>> \o Tail(t)

\* What exec(text, {}) does under a deadline: "none" when the text runs to
\* its end, "deadline" when it is still running at the deadline, "hang" when
\* it goes on after the deadline, otherwise the class of the exception that
\* leaves it.
RECURSIVE ExecFrom(_, _, _)
ExecFrom(text, i, ns) ==
    IF i > Len(text) THEN "none"
    ELSE LET s == text[i].stmt IN
         CASE s \in {"blank", "print"} -> ExecFrom(text, i + 1, ns)
           [] s = "def" -> ExecFrom(text, i + 1, ns \cup {DefName})
           [] s = "use" /\ DefName \in ns -> ExecFrom(text, i + 1, ns)
           [] s = "loop" -> "deadline"
           [] s = "loop_catch" -> "hang"
           [] OTHER -> Raises(s)

ExecOf(text) == IF Parses(text) THEN ExecFrom(text, 1, {}) ELSE "SyntaxError"

\* src/agent/tools.py lines 141-256: the except clauses of run_tests.
RunTestsClass(text) ==
    LET e == ExecOf(text) IN
    CASE e = "none"     -> "passed"
      [] e = "deadline" -> "timeout"
      [] e = "hang"     -> "no result"
      [] OTHER -> CASE RtHandlerPc(e) = "rt_h_assert" -> "failed"
                    [] RtHandlerPc(e) = "rt_h_exc"    -> "error"
                    [] OTHER -> "raised"

\* evaluation.py lines 79-112: the except clauses around
\* run_code_with_timeout, and the counter each of them raises.
EvalClass(text) ==
    LET e == ExecOf(text) IN
    CASE e = "none"     -> "passed"
      [] e = "deadline" -> "timeout"
      [] e = "hang"     -> "no result"
      [] e = "AssertionError" -> "failed"
      [] IsException(e) -> "error"
      [] OTHER -> "raised"

\* A code text and a test text.
EvalInit ==
    /\ VerifierInit
    /\ PairIdle
    /\ BugFixIdle
    /\ GraphIdle
    /\ ShouldContinueIdle
    /\ PoolIdle
    /\ RunCodeIdle
    /\ LoaderIdle
    /\ RunIdle
    /\ CountIdle
    /\ PassIdle
    /\ PathIdle
    /\ ev_in \in Inputs
    /\ ev_out = <<>>

\* Both run the pair: run_tests of the agent on the files holding the two
\* texts, the evaluation on the row holding them.
RunBoth ==
    /\ ev_out = <<>>
    /\ LET a == full_code_lines(ev_in[1], ev_in[2])
           e == eval_full_code_lines(ev_in[1], ev_in[2])
       IN ev_out' = [agent_text |-> a, agent |-> RunTestsClass(a),
                     eval_text |-> e, eval |-> EvalClass(e)]
    /\ UNCHANGED ev_in
    /\ UNCHANGED outsideEval

EvalSpec == EvalInit /\ [][RunBoth]_allVars

\* ------------------------------ run_code (src/agents/tools.py lines 107-144)
\* str.strip() of a text: the blank lines at both ends go, and the white
\* space that ends the last line.
StripLines(text) ==
    LET N == {i \in 1..Len(text) : text[i].stmt # "blank"}
    IN IF N = {} THEN EmptyText
       ELSE LET lo == CHOOSE i \in N : \A j \in N : i <= j
                hi == CHOOSE i \in N : \A j \in N : j <= i
            IN [i \in 1..(hi - lo + 1) |->
                  IF i = hi - lo + 1 THEN [text[hi] EXCEPT !.pad = FALSE]
                  ELSE text[lo + i - 1]]

SuccessText   == "U+2713 Success! All tests passed."
ExecutedText  == "U+2713 Code executed successfully."
FailedText    == "U+2717 Execution failed."
ToolErrorText == "U+2717 Tool error"

\* lines 117-128: the input is taken apart and execute_python_code is
\* called on the parts; without a TESTS: section the tests are "".
run_code_call ==
    /\ rc_pc = "idle"
    /\ pc = "idle"
    /\ \E in \in Inputs, section \in BOOLEAN :
         /\ ~section => in[2] = EmptyText
         /\ rc_in' = [section |-> section, code |-> in[1], tests |-> in[2]]
         /\ Call("execute_python_code", StripLines(in[1]),
                 IF section THEN StripLines(in[2]) ELSE EmptyText)
    /\ rc_pc' = "called"
    /\ UNCHANGED rc_ret
    /\ UNCHANGED outsideRunCode

\* lines 131-144: the result is turned into the text; an Exception that left
\* execute_python_code is caught and reported, any other exception goes on
\* to the caller of run_code.
run_code_format ==
    /\ rc_pc = "called"
    /\ pc = "done"
    /\ IF outcome = "returned"
       THEN /\ rc_ret' = IF result.success /\ result.tests_passed
                         THEN SuccessText
                         ELSE IF result.success
                         THEN ExecutedText
                         ELSE FailedText
            /\ rc_pc' = "returned"
       ELSE IF IsException(exc.cls)
       THEN rc_ret' = ToolErrorText /\ rc_pc' = "returned"
       ELSE rc_ret' = "" /\ rc_pc' = "raised"
    /\ UNCHANGED rc_in
    /\ UNCHANGED <<vars, outsideRunCode>>

\* The caller of run_code goes on.
run_code_end ==
    /\ rc_pc \in {"returned", "raised"}
    /\ Return
    /\ rc_pc' = "idle"
    /\ rc_in' = <<>>
    /\ rc_ret' = ""
    /\ UNCHANGED outsideRunCode

\* The steps of the execute_python_code call that run_code makes.
EpStep ==
    \/ EpInit \/ EpArm \/ EpEnterOut \/ EpEnterErr \/ EpExitErr \/ EpExitOut
    \/ EpCancel \/ EpOk \/ EpHandlerAlarm \/ EpHandlerBody \/ EpReturn
    \/ ExecCompile \/ ExecStmt \/ ExecReturn

RunCodeNext ==
    \/ run_code_call
    \/ EpStep
    \/ run_code_format
    \/ run_code_end
    \/ Fire
    \/ StaleFire

RunCodeSpec == Init /\ [][RunCodeNext]_allVars

\* ------------------- HumanEvalFixLoader (src/data/humanevalfix/loader.py)
MaxItems == 2      \* rows of the dataset load_dataset returns

\* The rows of a dataset: "absent" is a row without the key task_id, "None"
\* a prompt that is None.
Items ==
    [task_id : {"0", "1", "absent"},
     prompt : {"def f():", "None"},
     buggy_solution : {"", "return 1"},
     canonical_solution : {"", "return 2"}]

Datasets == UNION {[1..n -> Items] : n \in 0..MaxItems}

\* The exceptions load_dataset, or the iteration over the dataset, can raise.
LoadFailures == {"OSError", "ValueError", "KeyboardInterrupt"}

\* What load_dataset can do in one call.
LoadEnvs ==
    {[raises |-> "none", dataset |-> d] : d \in Datasets}
    \cup {[raises |-> c, dataset |-> <<>>] : c \in LoadFailures}

\* str(idx)
StrOfIdx(idx) == <<"0", "1", "2", "3", "4", "5", "6", "7", "8", "9">>[idx + 1]

\* prompt + solution if solution else prompt, as the parts of the text
PromptPlus(prompt, solution) ==
    IF solution # "" THEN <<prompt, solution>> ELSE <<prompt>>

\* lines 62-97: the task of a row, <<>> (None) when building it raises;
\* None + str raises a TypeError.
HumanEvalFixLoader_process_item(item, idx) ==
    IF item.prompt = "None"
       /\ (item.buggy_solution # "" \/ item.canonical_solution # "")
    THEN <<>>
    ELSE <<[task_id |-> IF item.task_id = "absent" THEN StrOfIdx(idx)
                        ELSE item.task_id,
            buggy_code |-> PromptPlus(item.prompt, item.buggy_solution),
            fixed_code |-> PromptPlus(item.prompt, item.canonical_solution),
            docstring |-> <<item.prompt>>,
            tests |-> <<"test">>]>>

\* lines 99-128
HumanEvalFixLoader_get_mock_data ==
    <<[task_id |-> "0",
       docstring |-> <<"def add(a, b):">>,
       buggy_code |-> <<"def add(a, b):", "return a - b">>,
       fixed_code |-> <<"def add(a, b):", "return a + b">>,
       tests |-> <<"assert add(2, 3) == 5">>],
      [task_id |-> "1",
       docstring |-> <<"def multiply(a, b):">>,
       buggy_code |-> <<"def multiply(a, b):", "return a + b">>,
       fixed_code |-> <<"def multiply(a, b):", "return a * b">>,
       tests |-> <<"assert multiply(2, 3) == 6">>],
      [task_id |-> "2",
       docstring |-> <<"def is_even(n):">>,
       buggy_code |-> <<"def is_even(n):", "return n % 2 == 1">>,
       fixed_code |-> <<"def is_even(n):", "return n % 2 == 0">>,
       tests |-> <<"assert is_even(2) == True">>]>>

\* lines 48-52: the tasks of the rows from row i on (i counts from 1, idx
\* from 0); a row without a task is left out.
RECURSIVE TasksFrom(_, _)
TasksFrom(dataset, i) ==
    IF i > Len(dataset) THEN <<>>
    ELSE HumanEvalFixLoader_process_item(dataset[i], i - 1)
         \o TasksFrom(dataset, i + 1)

\* A load without its except clause.
LoadHandlerAbsent(cls) == "raise"

\* line 57: what the except clause of load does with an exception of class
\* cls.
LoadHandler(cls) == IF IsException(cls) THEN "mock" ELSE "raise"

\* lines 34-60
HumanEvalFixLoader_load(env) ==
    IF env.raises = "none"
    THEN [kind |-> "returned", value |-> TasksFrom(env.dataset, 1)]
    ELSE IF LoadHandler(env.raises) = "mock"
    THEN [kind |-> "returned", value |-> HumanEvalFixLoader_get_mock_data]
    ELSE [kind |-> "raised", value |-> <<>>]

\* lines 141-144: the first task from i on whose id is task_id, <<>> (None)
\* when there is none.
RECURSIVE FirstTask(_, _, _)
FirstTask(tasks, task_id, i) ==
    IF i > Len(tasks) THEN <<>>
    ELSE IF tasks[i].task_id = task_id THEN <<tasks[i]>>
    ELSE FirstTask(tasks, task_id, i + 1)

\* lines 140-144
HumanEvalFixLoader_get_task_by_id(env, task_id) ==
    LET loaded == HumanEvalFixLoader_load(env)
    IN IF loaded.kind = "raised" THEN loaded
       ELSE [kind |-> "returned", value |-> FirstTask(loaded.value, task_id, 1)]

\* The ids a caller asks for.
QueryIds == {"0", "1", "2", "7"}

LoaderInit ==
    /\ VerifierInit
    /\ PairIdle
    /\ BugFixIdle
    /\ GraphIdle
    /\ ShouldContinueIdle
    /\ PoolIdle
    /\ EvalIdle
    /\ RunCodeIdle
    /\ LoaderIdle
    /\ RunIdle
    /\ CountIdle
    /\ PassIdle
    /\ PathIdle

\* A call of load.  No call reads what an earlier call left (self.dataset,
\* line 45, is read nowhere), so one call from the fresh loader stands for
\* every call.
load ==
    /\ ld_call = <<>>
    /\ \E env \in LoadEnvs :
         /\ ld_env' = env
         /\ ld_out' = HumanEvalFixLoader_load(env)
    /\ ld_call' = [method |-> "load", task_id |-> ""]
    /\ UNCHANGED outsideLoader

\* A call of get_task_by_id.
get_task_by_id ==
    /\ ld_call = <<>>
    /\ \E env \in LoadEnvs, id \in QueryIds :
         /\ ld_env' = env
         /\ ld_out' = HumanEvalFixLoader_get_task_by_id(env, id)
         /\ ld_call' = [method |-> "get_task_by_id", task_id |-> id]
    /\ UNCHANGED outsideLoader

LoaderNext ==
    \/ load
    \/ get_task_by_id

LoaderSpec == LoaderInit /\ [][LoaderNext]_allVars

\* --------------------------- run (src/agent/run.py): the results column
\* pd.read_csv: an empty cell is read as NaN.
read_csv_value(cell) == IF cell = "" THEN "nan" ELSE cell

\* df.to_csv: NaN and the empty string are both written as an empty cell.
to_csv_cell(v) == IF v \in {"nan", ""} THEN "" ELSE v

\* The results file at the start: there is none, it has no column named
\* version, or it has one, with a cell per row (a row the file lacks reads
\* as an empty cell).
RunEnvs ==
    UNION {{[file |-> f, cells |-> [i \in 1..n |-> ""]] :
               f \in {"absent", "no_column"}}
           \cup {[file |-> "column", cells |-> c] :
                    c \in [1..n -> {"", "old"}]} : n \in 1..MaxRows}

\* lines 123-134: df[version]
ResultColumn(env) ==
    [i \in DOMAIN env.cells |->
        IF env.file = "column" THEN read_csv_value(env.cells[i]) ELSE ""]

\* The mask with notna() only.
completed_mask_notna(v) == v # "nan"

\* line 137: df[version].notna() & (df[version] != "")
completed_mask(v) == v # "nan" /\ v # ""

\* What future.result() gives for a row (line 185): the pair that
\* process_single_row returned, or the exception that left it or the
\* worker.
WorkerResults ==
    {[kind |-> "returned", code |-> c] : c \in {"buggy", "fix", ""}}
      \cup {[kind |-> "raised", code |-> e] :
               e \in {"BrokenProcessPool", "SystemExit"}}

RunInit ==
    /\ VerifierInit
    /\ PairIdle
    /\ BugFixIdle
    /\ GraphIdle
    /\ ShouldContinueIdle
    /\ PoolIdle
    /\ EvalIdle
    /\ RunCodeIdle
    /\ LoaderIdle
    /\ CountIdle
    /\ PassIdle
    /\ PathIdle
    /\ r_pc = "start"
    /\ r_env \in RunEnvs
    /\ r_col = <<>>
    /\ r_csv = IF r_env.file = "column" THEN r_env.cells ELSE <<>>
    /\ r_subs = [i \in DOMAIN r_env.cells |-> 0]
    /\ r_got = {}

\* lines 121-178: the column is loaded, the rows without a result are
\* submitted; with none of them run returns (line 163) before it writes the
\* file.
run_prepare ==
    /\ r_pc = "start"
    /\ LET col  == ResultColumn(r_env)
           todo == {i \in DOMAIN col : ~completed_mask(col[i])}
       IN /\ r_col' = col
          /\ r_subs' = [i \in DOMAIN col |-> IF i \in todo THEN r_subs[i] + 1
                                             ELSE r_subs[i]]
          /\ IF todo = {}
             THEN r_pc' = "returned" /\ UNCHANGED r_csv
             ELSE /\ r_pc' = "collect"
                  /\ r_csv' = [i \in DOMAIN col |-> to_csv_cell(col[i])]
    /\ UNCHANGED <<r_env, r_got>>
    /\ UNCHANGED outsideRun

\* lines 182-204: the next completed future, in any order; its result is
\* stored in the row process_single_row names, which is the row it was given
\* (lines 23, 79, 87), an Exception is answered with the empty string, and
\* the file is written again.  Any other exception leaves run.
run_collect ==
    /\ r_pc = "collect"
    /\ \E i \in DOMAIN r_col, w \in WorkerResults :
         /\ r_subs[i] > 0
         /\ i \notin r_got
         /\ r_got' = r_got \cup {i}
         /\ IF w.kind = "raised" /\ ~CaughtByExceptException(w.code)
            THEN r_pc' = "raised" /\ UNCHANGED <<r_col, r_csv>>
            ELSE LET col == [r_col EXCEPT ![i] = IF w.kind = "returned"
                                                 THEN w.code ELSE ""]
                 IN /\ r_col' = col
                    /\ r_csv' = [j \in DOMAIN col |-> to_csv_cell(col[j])]
                    /\ UNCHANGED r_pc
    /\ UNCHANGED <<r_env, r_subs>>
    /\ UNCHANGED outsideRun

\* lines 206-215: every future has been collected.
run_end ==
    /\ r_pc = "collect"
    /\ \A i \in DOMAIN r_col : r_subs[i] > 0 => i \in r_got
    /\ r_pc' = "returned"
    /\ UNCHANGED <<r_env, r_col, r_csv, r_subs, r_got>>
    /\ UNCHANGED outsideRun

RunNext ==
    \/ run_prepare
    \/ run_collect
    \/ run_end

RunSpec == RunInit /\ [][RunNext]_allVars

\* ------------------- run_tests and main of src/eval/evaluation.py: counters
\* The value of row[version]: not a str (NaN, a number), or a str, which may
\* be empty; the texts are programs of one line.
CodeCells ==
    {[str |-> FALSE, text |-> EmptyText]}
      \cup {[str |-> TRUE, text |-> t] : t \in TextsOfLen(1)}

\* row['test']: it begins with an empty line.
EvalTest == <<EmptyLine, [stmt |-> "print", pad |-> FALSE]>>

\* The exit codes a program can pass to sys.exit.
ExitCodes == {0, 1}

\* lines 50-64, called from main (lines 162-172) on a file that exists.
CountInit ==
    /\ VerifierInit
    /\ PairIdle
    /\ BugFixIdle
    /\ GraphIdle
    /\ ShouldContinueIdle
    /\ PoolIdle
    /\ EvalIdle
    /\ RunCodeIdle
    /\ LoaderIdle
    /\ RunIdle
    /\ PassIdle
    /\ PathIdle
    /\ ec_pc = "loop"
    /\ ec_rows \in UNION {[1..n -> CodeCells] : n \in 0..MaxRows}
    /\ ec_i = 1
    /\ ec_results = [passed |-> 0, failed |-> 0, errors |-> 0, timeout |-> 0]
    /\ ec_exit = -1

\* Line 72: the row is skipped.
Skipped(cell) == cell.text = EmptyText \/ ~cell.str

\* lines 67-112: one row of the loop.  An exception that is no Exception
\* leaves run_tests and, being a SystemExit, ends the process with the code
\* the program gave it.  A program that goes on after the deadline never
\* ends its row.
eval_row ==
    /\ ec_pc = "loop"
    /\ ec_i <= Len(ec_rows)
    /\ LET cell == ec_rows[ec_i]
           c    == EvalClass(eval_full_code_lines(cell.text, EvalTest))
       IN /\ ec_i' = IF ~Skipped(cell) /\ c = "no result" THEN ec_i
                     ELSE ec_i + 1
          /\ IF Skipped(cell)
             THEN UNCHANGED <<ec_pc, ec_results, ec_exit>>
             ELSE CASE c = "passed" ->
                         /\ ec_results' = [ec_results EXCEPT !.passed = @ + 1]
                         /\ UNCHANGED <<ec_pc, ec_exit>>
                    [] c = "timeout" ->
                         /\ ec_results' = [ec_results EXCEPT !.timeout = @ + 1]
                         /\ UNCHANGED <<ec_pc, ec_exit>>
                    [] c = "failed" ->
                         /\ ec_results' = [ec_results EXCEPT !.failed = @ + 1]
                         /\ UNCHANGED <<ec_pc, ec_exit>>
                    [] c = "error" ->
                         /\ ec_results' = [ec_results EXCEPT !.errors = @ + 1]
                         /\ UNCHANGED <<ec_pc, ec_exit>>
                    [] c = "no result" ->
                         /\ ec_pc' = "hang"
                         /\ UNCHANGED <<ec_results, ec_exit>>
                    [] OTHER ->
                         /\ ec_pc' = "exited"
                         /\ ec_exit' \in ExitCodes
                         /\ UNCHANGED ec_results
    /\ UNCHANGED ec_rows
    /\ UNCHANGED outsideCount

\* lines 114-154: the summary divides by len(df); with no row at all that
\* is a ZeroDivisionError, which leaves run_tests and main (exit code 1).
eval_summary ==
    /\ ec_pc = "loop"
    /\ ec_i > Len(ec_rows)
    /\ IF Len(ec_rows) = 0
       THEN ec_pc' = "exited" /\ ec_exit' = 1
       ELSE ec_pc' = "returned" /\ UNCHANGED ec_exit
    /\ UNCHANGED <<ec_rows, ec_i, ec_results>>
    /\ UNCHANGED outsideCount

\* lines 172-178
main_exit ==
    /\ ec_pc = "returned"
    /\ ec_pc' = "exited"
    /\ ec_exit' = IF \/ ec_results.failed > 0
                     \/ ec_results.errors > 0
                     \/ ec_results.timeout > 0
                  THEN 1 ELSE 0
    /\ UNCHANGED <<ec_rows, ec_i, ec_results>>
    /\ UNCHANGED outsideCount

CountNext ==
    \/ eval_row
    \/ eval_summary
    \/ main_exit

CountSpec == CountInit /\ [][CountNext]_allVars

\* ------------------- calculate_pass_at_1 (src/eval/evaluate_pass_at1.py)
\* lines 62-70: the list has up to MaxRows results; each is drawn when the
\* loop reaches it.
PassInit ==
    /\ VerifierInit
    /\ PairIdle
    /\ BugFixIdle
    /\ GraphIdle
    /\ ShouldContinueIdle
    /\ PoolIdle
    /\ EvalIdle
    /\ RunCodeIdle
    /\ LoaderIdle
    /\ RunIdle
    /\ CountIdle
    /\ PathIdle
    /\ pa_pc = "loop"
    /\ pa_total \in 0..MaxRows
    /\ pa_counts = [passed |-> 0, failed |-> 0, errors |-> 0]
    /\ pa_detailed = <<>>

\* lines 73-85: a result without code or without tests.
pass_missing ==
    /\ pa_pc = "loop"
    /\ Len(pa_detailed) < pa_total
    /\ pa_counts' = [pa_counts EXCEPT !.errors = @ + 1]
    /\ pa_detailed' = Append(pa_detailed,
                             [task_id |-> Len(pa_detailed) + 1,
                              passed |-> FALSE, error |-> TRUE])
    /\ UNCHANGED <<pa_pc, pa_total>>
    /\ UNCHANGED <<vars, outsidePass>>

\* lines 73-89 and 45: a result with code and tests; evaluate_solution calls
\* execute_python_code on them.
pass_evaluate ==
    /\ pa_pc = "loop"
    /\ Len(pa_detailed) < pa_total
    /\ pc = "idle"
    /\ \E in \in Inputs :
         /\ Truthy(in[1])
         /\ Truthy(in[2])
         /\ Call("execute_python_code", in[1], in[2])
    /\ pa_pc' = "called"
    /\ UNCHANGED <<pa_total, pa_counts, pa_detailed>>
    /\ UNCHANGED outsidePass

\* lines 46-49 and 91-103: the result of the call is counted; an Exception
\* out of it counts as a failure (line 49), any other exception leaves
\* evaluate_solution and calculate_pass_at_1.  Nothing between lines 89 and
\* 103 raises an Exception, so lines 105-114 are never reached.
pass_count ==
    /\ pa_pc = "called"
    /\ Return
    /\ IF outcome = "raised" /\ ~IsException(exc.cls)
       THEN /\ pa_pc' = "raised"
            /\ UNCHANGED <<pa_counts, pa_detailed>>
       ELSE LET success == /\ outcome = "returned"
                           /\ result.success
                           /\ result.tests_passed
            IN /\ pa_counts' = IF success
                               THEN [pa_counts EXCEPT !.passed = @ + 1]
                               ELSE [pa_counts EXCEPT !.failed = @ + 1]
               /\ pa_detailed' = Append(pa_detailed,
                                        [task_id |-> Len(pa_detailed) + 1,
                                         passed |-> success, error |-> FALSE])
               /\ pa_pc' = "loop"
    /\ UNCHANGED pa_total
    /\ UNCHANGED outsidePass

\* lines 116-126
pass_return ==
    /\ pa_pc = "loop"
    /\ Len(pa_detailed) = pa_total
    /\ pa_pc' = "returned"
    /\ UNCHANGED <<pa_total, pa_counts, pa_detailed>>
    /\ UNCHANGED <<vars, outsidePass>>

PassNext ==
    \/ pass_missing
    \/ pass_evaluate
    \/ EpStep
    \/ Fire
    \/ StaleFire
    \/ pass_count
    \/ pass_return

PassSpec == PassInit /\ [][PassNext]_allVars

\* ------- the task id in the file names (run.py lines 26-53, tools.py 129-131)
MaxIdLen == 3      \* characters of a task id

\* A text is the sequence of its pieces; the pieces longer than one
\* character hold neither "_" nor ".".
IdChars == {"7", "x", "_", "."}
IdTexts == UNION {[1..n -> IdChars] : n \in 1..MaxIdLen}

\* text.split(sep)[-1]: what follows the last sep, the text when it has none.
LastPart(text, sep) ==
    LET S == {i \in 1..Len(text) : text[i] = sep}
    IN IF S = {} THEN text
       ELSE SubSeq(text, (CHOOSE i \in S : \A j \in S : j <= i) + 1, Len(text))

\* text.split(sep)[0]: what precedes the first sep, the text when it has none.
FirstPart(text, sep) ==
    LET S == {i \in 1..Len(text) : text[i] = sep}
    IN IF S = {} THEN text
       ELSE SubSeq(text, 1, (CHOOSE i \in S : \A j \in S : i <= j) - 1)

\* run.py lines 37, 53: f"tmp/code/code_{task_id}.py"
relative_code_path(id) == <<"tmp/code/code", "_">> \o id \o <<".", "py">>

\* run.py line 45 and tools.py line 131: f"tmp/test/test_{task_id}.py"
test_path(id) == <<"tmp/test/test", "_">> \o id \o <<".", "py">>

\* tools.py line 130: code_path.split("_")[-1].split(".")[0]
task_id_of_path(code_path) == FirstPart(LastPart(code_path, "_"), ".")

PathInit ==
    /\ VerifierInit
    /\ PairIdle
    /\ BugFixIdle
    /\ GraphIdle
    /\ ShouldContinueIdle
    /\ PoolIdle
    /\ EvalIdle
    /\ RunCodeIdle
    /\ LoaderIdle
    /\ RunIdle
    /\ CountIdle
    /\ PassIdle
    /\ tp_pc = "row"
    /\ tp_id \in IdTexts
    /\ tp_paths = <<>>
    /\ tp_read = <<>>

\* run.py lines 37-61: the two files are written and the agent is given the
\* path of the code file.
name_files ==
    /\ tp_pc = "row"
    /\ tp_paths' = [code |-> relative_code_path(tp_id), test |-> test_path(tp_id)]
    /\ tp_pc' = "named"
    /\ UNCHANGED <<tp_id, tp_read>>
    /\ UNCHANGED outsidePath

\* tools.py lines 129-131: run_tests on that path reads the code file and the
\* test file it derives from the path.
read_test_file ==
    /\ tp_pc = "named"
    /\ tp_read' = test_path(task_id_of_path(tp_paths.code))
    /\ tp_pc' = "read"
    /\ UNCHANGED <<tp_id, tp_paths>>
    /\ UNCHANGED outsidePath

PathNext ==
    \/ name_files
    \/ read_test_file

PathSpec == PathInit /\ [][PathNext]_allVars

\* ================================================================ claims
ExecPcs == {"rt_exec", "ep_exec_code", "ep_exec_test"}

LoopStmts == {"loop", "loop_catch"}

\* The program under exec is inside an endless loop.
Looping ==
    /\ InExec
    /\ ip \in 1..Len(Unit)
    /\ Unit[ip].stmt \in LoopStmts

\* C1: whatever the candidate and the test are, a verifier call ends by
\* returning a verdict, never by propagating an exception (the machinery
\* around the program works, and the signal, if delivered, is delivered
\* while the program runs).
C1_VerifierNeverRaises ==
    (pc = "done" /\ fault = "none" /\ sigAt \in {"none"} \cup ExecPcs)
        => outcome = "returned"

\* C2: a run_tests call whose combined program is in an endless loop
\* eventually returns a verdict with status 'timeout'.
C2_LoopEndsInTimeout ==
    (fn = "run_tests" /\ Looping)
        ~> (/\ pc = "done"
            /\ fn = "run_tests"
            /\ outcome = "returned"
            /\ result.status = "timeout")

\* C3: an alarm armed by run_tests is pending only while that call is in
\* progress: it is never pending once the call has ended, nor during a
\* later call.
C3_RunTestsAlarmNeverLeaks ==
    alarm.by = "run_tests" => (alarm.of = "cur" /\ pc \notin {"idle", "done"})

\* C3 witness: run_tests ended by propagating an error that is not an
\* Exception, after arming the alarm, and no alarm is pending.
C3_Witness ==
    /\ pc = "done"
    /\ fn = "run_tests"
    /\ outcome = "raised"
    /\ exc.cls = "SystemExit"
    /\ handler = "agent.timeout_handler"
    /\ alarm = NoAlarm

\* C4: an alarm armed by execute_python_code is pending only while that
\* call is in progress.
C4_ExecuteAlarmNeverLeaks ==
    alarm.by = "execute_python_code"
        => (alarm.of = "cur" /\ pc \notin {"idle", "done"})

\* C5: when a run_tests call has ended, sys.stdout and sys.stderr are the
\* streams that were installed when the call began.
C5_StreamsRestored ==
    (pc = "done" /\ fn = "run_tests")
        => (sys_stdout = entry_out /\ sys_stderr = entry_err)

ExceptionKeys == {"error", "error_line", "error_code", "traceback"}

\* C6: a program that runs to its end without raising, the deadline signal
\* not having been delivered during the call, gets the passed verdict with
\* no exception field: run_tests returns status 'passed', success true, the
\* success message and none of error, error_line, error_code, traceback;
\* execute_python_code returns success true, tests_passed true, error empty.
C6_NormalEndPasses ==
    (pc = "done" /\ progExc = "none" /\ sigAt = "none")
        => /\ outcome = "returned"
           /\ IF fn = "run_tests"
              THEN /\ result.status = "passed"
                   /\ result.success = TRUE
                   /\ result.message.text = "All tests executed successfully"
                   /\ DOMAIN result \cap ExceptionKeys = {}
              ELSE /\ result.success = TRUE
                   /\ result.tests_passed = TRUE
                   /\ result.error = ""

\* C6 witness: run_tests has returned for a program that printed a marker
\* and ran to its end.
C6_Witness ==
    /\ pc = "done"
    /\ fn = "run_tests"
    /\ progExc = "none"
    /\ sigAt = "none"
    /\ outcome = "returned"
    /\ outbuf > 0

\* C7: when the parser has rejected the candidate text or the test text,
\* the verdict the verifier returns reports a syntax error and no statement
\* of either text has run: nothing was executed and the captured output is
\* empty.
C7_NothingRunsOnSyntaxError ==
    (/\ pc = "done"
     /\ outcome = "returned"
     /\ sigAt = "none"
     /\ progExc = "SyntaxError"
     /\ ~(Parses(code) /\ Parses(test)))
        => /\ result.error = "SyntaxError"
           /\ ~ran
           /\ outbuf = 0

\* C8: when the combined program does not parse, run_tests returns a
\* verdict whose outcome kind is not the one of runtime errors and whose
\* error_line and error_code are those of the parser's error location.
C8_SyntaxErrorVerdict ==
    (/\ pc = "done"
     /\ fn = "run_tests"
     /\ fault = "none"
     /\ sigAt = "none"
     /\ ~Parses(full_code_lines(code, test)))
        => /\ outcome = "returned"
           /\ result.status # "error"
           /\ "error_line" \in DOMAIN result
           /\ "error_code" \in DOMAIN result
           /\ result.error_line = exc.lineno
           /\ result.error_code = strip(full_code_lines(code, test)[exc.lineno])

\* C9: the status run_tests returns is decided by the exception that ended
\* the run of the combined program: none gives 'passed', AssertionError
\* 'failed' with error 'AssertionError', the deadline exception 'timeout',
\* any other Exception 'error' with error the name of its type; success is
\* true exactly for 'passed'.
C9_StatusByException ==
    (/\ pc = "done"
     /\ fn = "run_tests"
     /\ outcome = "returned"
     /\ sigAt \in {"none", "rt_exec"})
        => /\ result.status \in {"passed", "failed", "timeout", "error"}
           /\ result.success = (result.status = "passed")
           /\ (result.status = "passed") = (progExc = "none")
           /\ (result.status = "failed") = (progExc = "AssertionError")
           /\ (result.status = "timeout") = (progExc = "agent.TimeoutError")
           /\ (result.status = "error") =
                 (progExc \in ExcClasses \ {"AssertionError", "agent.TimeoutError"})
           /\ result.status = "failed" => result.error = "AssertionError"
           /\ result.status = "error" => result.error = TypeName(progExc)

\* C9 witness: the program raised the builtin TimeoutError, which is not
\* the deadline exception, and run_tests returned 'error' for it.
C9_Witness ==
    /\ pc = "done"
    /\ fn = "run_tests"
    /\ outcome = "returned"
    /\ sigAt = "none"
    /\ progExc = "builtins.TimeoutError"
    /\ result.status = "error"
    /\ result.error = "TimeoutError"

\* The index of the innermost frame of tb whose source is the combined
\* program, 0 when there is none.
RECURSIVE InnermostOwn(_, _)
InnermostOwn(tb, i) ==
    IF i = 0 THEN 0
    ELSE IF tb[i].own THEN i
    ELSE InnermostOwn(tb, i - 1)

\* C10: in a failed or error verdict of run_tests, error_line is the line
\* of the innermost traceback frame that lies in the combined program and
\* error_code the trimmed text of that line; both are absent when no frame
\* lies in the combined program.
C10_ErrorLineIsInnermostOwnFrame ==
    (/\ pc = "done"
     /\ fn = "run_tests"
     /\ outcome = "returned"
     /\ result.status \in {"failed", "error"})
        => LET i == InnermostOwn(exc.tb, Len(exc.tb))
           IN IF i = 0
              THEN DOMAIN result \cap {"error_line", "error_code"} = {}
              ELSE /\ "error_line" \in DOMAIN result
                   /\ "error_code" \in DOMAIN result
                   /\ result.error_line = exc.tb[i].lineno
                   /\ result.error_code =
                         strip(full_code_lines(code, test)[exc.tb[i].lineno])

\* C11: a run_tests call that has started to execute the combined program
\* ends with exactly one outcome: it returns a verdict, and the status of the
\* verdict is one of passed, failed, timeout, error.
C11_ExactlyOneStatus ==
    (pc = "done" /\ fn = "run_tests" /\ progExc # "n/a")
        => /\ outcome = "returned"
           /\ result.status \in Statuses

\* The names bound by the statements of text above line i.
DefsBefore(text, i) ==
    {DefName : j \in {k \in 1..Len(text) : k < i /\ text[k].stmt = "def"}}

\* C12: while the program of a call runs, the execution namespace holds
\* exactly the names that the statements of this call have bound so far: no
\* name bound by the program of an earlier call is in it.
C12_NamespaceIsolated ==
    InExec =>
        namespace = DefsBefore(Unit, ip)
                      \cup (IF pc = "ep_exec_test"
                            THEN DefsBefore(code, Len(code) + 1) ELSE {})

\* C12 witness: the program of an earlier call bound the name, the program
\* of this call reads it without binding it and ends with NameError.
C12_Witness ==
    /\ pc = "done"
    /\ leftover = {DefName}
    /\ progExc = "NameError"
    /\ namespace = {}

\* C14: a timeout verdict returned after the deadline signal interrupted the
\* program carries the output the program had written: run_tests reports it
\* under stdout, execute_python_code under output.
C14_TimeoutCarriesOutput ==
    (/\ pc = "done"
     /\ outcome = "returned"
     /\ sigAt \in ExecPcs
     /\ outbuf > 0
     /\ IF fn = "run_tests" THEN result.status = "timeout"
                            ELSE result.error = "Timeout")
        => IF fn = "run_tests"
           THEN "stdout" \in DOMAIN result /\ result.stdout = outbuf
           ELSE result.output = outbuf

\* C13: when a verifier is called twice in a row on the same texts, the
\* machinery around the program works in both calls and the alarm of each
\* call is delivered at the same place (or in neither), the second call ends
\* as the first did: same outcome kind, same exception kind.
C13_SameOutcomeTwice ==
    (/\ pc = "done"
     /\ prev # NoPrev
     /\ fault = "none"
     /\ prev.fault = "none"
     /\ prev.sig \in {"none"} \cup ExecPcs
     /\ OwnSigAt = prev.sig)
        => OutcomeKind = prev.kind

\* The agent node has run as often as the counter says, at most
\* max_iterations times, and once the counter has reached max_iterations
\* neither the agent node nor the tools node is due again.
C15_Counter ==
    /\ iteration = bf_runs
    /\ bf_runs <= max_iterations
    /\ (bf_runs > 0 /\ iteration >= max_iterations)
           => bf_node \in {"extract_code", "END", "returned"}

\* A step of the agent node adds exactly 1 to the counter, and extract_code
\* is followed by END.
C15_Step ==
    /\ bf_node = "agent" => iteration' = iteration + 1
    /\ bf_node = "extract_code" => bf_node' = "END"

\* C15: whatever the model replies and whatever max_iterations >= 1 is,
\* fix_bug terminates: the counter grows by 1 with every step of the agent
\* node, the agent node runs at most max_iterations times, and once the
\* counter has reached max_iterations the run goes to extract_code and to END.
C15_FixBugTerminates ==
    /\ []C15_Counter
    /\ [][C15_Step]_bugfixVars
    /\ <>(bf_node \in {"returned", "raised"})

\* C15 witness: fix_bug has returned after the agent node ran
\* max_iterations times, more than once, each time asking for the tool.
C15_Witness ==
    /\ bf_node = "returned"
    /\ max_iterations > 1
    /\ bf_runs = max_iterations

\* C17: with max_iterations = 3, a model that returns the unchanged
\* candidate in every reply and no tool message reporting success, fix_bug
\* returns after exactly 3 runs of the agent node and returns the original
\* text.
C17_ExhaustedAfterThreeRounds ==
    (/\ bf_node = "returned"
     /\ max_iterations = 3
     /\ bf_hist.same
     /\ bf_hist.failing)
        => /\ bf_runs = 3
           /\ bf_ret = buggy_code

\* C18: the model is never invoked while the latest run_tests verdict in the
\* messages is 'passed': not after the initial run of the tests, not after
\* a later one.
C18_PassedEndsLoop == g_asked # "passed"

\* C19: a run_tests call of the tools step that returns the timeout verdict
\* (or failed, or error, all alike) is not the call that ends the step with
\* an exception, and when no call of the step raises, the verdict is in the
\* messages as the tool message of that call and the agent node is next.
C19_TimeoutIsOrdinaryResult ==
    \A i \in 1..Len(g_res.outs) :
        g_res.outs[i] \in {"timeout", "failed", "error"} =>
            /\ g_res.bad # i
            /\ g_res.bad = 0 =>
                 /\ g_node = "agent"
                 /\ g_exc = "none"
                 /\ g_messages[i + 1] =
                        GMessage("tool", "run_tests", g_res.outs[i], <<>>)

\* C19 witness: the tools step has delivered a timeout verdict and the agent
\* node is due.
C19_Witness ==
    /\ g_node = "agent"
    /\ g_res.bad = 0
    /\ \E i \in 1..Len(g_res.outs) : g_res.outs[i] = "timeout"

\* The call cannot be carried out: no tool has that name, or the arguments
\* are malformed.
Unusable(call) == call.name \notin ToolNames \/ call.args = "malformed"

\* C20: after a tools step on a reply all of whose tool calls are unusable,
\* the run has not failed, the agent node is next and the code file is what
\* it was before the step.
C20_UnusableOutputIsNoOp ==
    (/\ g_res.outs # <<>>
     /\ \A i \in 1..Len(g_messages[1].tool_calls) :
            Unusable(g_messages[1].tool_calls[i]))
        => /\ g_exc = "none"
           /\ g_node = "agent"
           /\ g_file = g_res.file0

\* C21: however the loop of a task ends, the source that process_single_row
\* returns is the last candidate written for the task, i.e. the content of
\* its code file; it is not the original buggy input when a later candidate
\* was written.
C21_LastCandidateReported ==
    g_node = "returned" => g_ret = g_file

\* C22: the branch BugFixAgent._should_continue takes depends only on the
\* outcome kind of the verdict, the oracle's reply and the round budget: on
\* two graph states that agree on the iteration, the budget, the reply and
\* the way the tool message begins (success or failure), and differ only in
\* the text of the failing statement quoted in the tool message, it gives the
\* same answer.
SameButFailingText(a, b) ==
    /\ a.iteration = b.iteration
    /\ a.max_iterations = b.max_iterations
    /\ Len(a.messages) = Len(b.messages)
    /\ \A i \in 1..Len(a.messages) :
         /\ [a.messages[i] EXCEPT !.content = NoContent]
              = [b.messages[i] EXCEPT !.content = NoContent]
         /\ a.messages[i].content.head = b.messages[i].content.head

C22_BranchIgnoresFailingText ==
    (sc_routes # <<>> /\ SameButFailingText(sc_states[1], sc_states[2]))
        => sc_routes[1] = sc_routes[2]

\* C23: within one task the steps of the graph of src/agent/agent.py follow
\* each other strictly: read_code, then run_tests_initial, then agent; an
\* agent step whose message holds tool calls is followed by a tools step,
\* every tools step is followed by an agent step, and the run ends only at an
\* agent step whose message holds no tool call.
GraphNodes == {"read_code", "run_tests_initial", "agent", "tools"}

C23_Sequence ==
    g_node \in GraphNodes =>
      /\ g_node = "read_code" => g_node' = "run_tests_initial"
      /\ g_node = "run_tests_initial" => g_node' = "agent"
      /\ g_node = "tools" => g_node' = "agent"
      /\ g_node' = "tools" =>
           /\ g_node = "agent"
           /\ g_messages'[Len(g_messages')].tool_calls # <<>>
      /\ g_node' \notin GraphNodes =>
           /\ g_node = "agent"
           /\ g_messages'[Len(g_messages')].tool_calls = <<>>

C23_StrictlySequential == [][C23_Sequence]_allVars

\* C24: for rows with distinct task_id values no two tasks ever write or
\* read the same code file or the same test file: the file names derived
\* from the task_id are distinct for distinct tasks and each file has a
\* single writer.
Started == {i \in DOMAIN p_rows : p_pc[i] # "queued"}

C24_FilesPerTask ==
    /\ \A i, j \in Started :
         i # j => /\ code_filepath(p_rows[i]) # code_filepath(p_rows[j])
                  /\ test_backup_filepath(p_rows[i])
                       # test_backup_filepath(p_rows[j])
    /\ \A f \in DOMAIN p_writers :
         Cardinality({w[1] : w \in p_writers[f]} \cup p_readers[f]) <= 1

\* C25: during the repair loop of a task every change of the candidate
\* overwrites the one code file of the task: no second candidate file ever
\* exists, and the text read back as the result of the task is the one the
\* rounds wrote.
RECURSIVE LastWritten(_, _)
LastWritten(calls, i) ==
    IF i = 0 THEN ""
    ELSE IF calls[i].name = "write_file" /\ calls[i].args \in Cands
         THEN calls[i].args
         ELSE LastWritten(calls, i - 1)

C25_OneCodeFile ==
    /\ g_other = ""
    /\ g_res.bad = 0 =>
         LET calls == g_messages[1].tool_calls
             w     == LastWritten(calls, Len(g_res.outs))
         IN (g_node = "agent" /\ w # "") => g_file = w
    /\ (g_node = "returned" /\ g_exc = "none") => g_ret = g_file

\* C26: a failure of the surrounding machinery in a call (a file of the task
\* cannot be read, the deadline timer cannot be installed) leaves the
\* verifier as a raised fault; no verdict is returned for it.
C26_MachineryFaultPropagates ==
    (pc = "done" /\ fault # "none") => outcome = "raised"

\* C27: for every code text and test text run_tests of src/agent/tools.py
\* executes the same combined program text as the evaluation of
\* src/eval/evaluation.py, and both class the pair alike (passed, failed,
\* error, timeout).
C27_SameProgramAsEvaluation ==
    ev_out # <<>> => /\ ev_out.agent_text = ev_out.eval_text
                     /\ ev_out.agent = ev_out.eval

\* C28: every result that execute_python_code returns has success equal to
\* tests_passed; success is true exactly when the code and the test ran to
\* their end without an exception before the deadline; when success is
\* false the error begins with 'Timeout' for the deadline, with 'Test failed'
\* for an assertion failure and with the type name of the exception
\* otherwise; when success is true the error is empty.
C28_ExpectedError ==
    IF fault # "none" THEN TypeName(exc.cls)
    ELSE IF sigAt # "none" THEN "Timeout"
    ELSE IF progExc = "AssertionError" THEN "Test failed"
    ELSE TypeName(progExc)

C28_ResultShape ==
    (fn = "execute_python_code" /\ pc = "done" /\ outcome = "returned")
        => /\ result.success = result.tests_passed
           /\ result.success =
                 (progExc = "none" /\ sigAt = "none" /\ fault = "none")
           /\ ~result.success => /\ result.error # ""
                                 /\ result.error = C28_ExpectedError
           /\ result.success => result.error = ""

\* C28 witness: execute_python_code has returned a failure for a program
\* that raised the builtin TimeoutError before the deadline.
C28_Witness ==
    /\ fn = "execute_python_code"
    /\ pc = "done"
    /\ outcome = "returned"
    /\ sigAt = "none"
    /\ progExc = "builtins.TimeoutError"
    /\ result.success = FALSE
    /\ result.error = "TimeoutError"

\* C29: run_code never raises and returns one of three texts: the one that
\* begins with the success mark when the code and the tests ran cleanly, the
\* one that begins with 'Execution failed' when they did not, the one that
\* begins with 'Tool error' when the tool itself failed; an input without a
\* TESTS: section whose code runs cleanly is reported as a success.
RanCleanly ==
    outcome = "returned" /\ progExc = "none" /\ sigAt = "none" /\ fault = "none"

C29_RunCodeShapes ==
    /\ rc_pc # "raised"
    /\ rc_pc = "returned" =>
         /\ rc_ret \in {SuccessText, FailedText, ToolErrorText}
         /\ (rc_ret = SuccessText) = RanCleanly
         /\ (rc_ret = ToolErrorText) = (outcome = "raised")


\* C30: HumanEvalFixLoader.load never raises an Exception: when loading the
\* dataset fails with one it returns the three mock tasks, a non-empty list;
\* every task of a returned list has the keys task_id, buggy_code and tests;
\* get_task_by_id returns the first task of the loaded list that has the
\* given id, and None (<<>>) when no task has it.
C30_LoadFailed == ld_env.raises # "none" /\ IsException(ld_env.raises)

C30_LoaderContract ==
    ld_call # <<>> =>
      /\ ld_out.kind = "raised" => ~IsException(ld_env.raises)
      /\ ld_call.method = "load" =>
           /\ C30_LoadFailed =>
                /\ ld_out.kind = "returned"
                /\ ld_out.value = HumanEvalFixLoader_get_mock_data
                /\ Len(ld_out.value) = 3
           /\ ld_out.kind = "returned" =>
                \A i \in 1..Len(ld_out.value) :
                    {"task_id", "buggy_code", "tests"}
                        \subseteq DOMAIN ld_out.value[i]
      /\ (ld_call.method = "get_task_by_id" /\ ld_out.kind = "returned") =>
           LET tasks == IF C30_LoadFailed
                        THEN HumanEvalFixLoader_get_mock_data
                        ELSE TasksFrom(ld_env.dataset, 1)
               M == {i \in 1..Len(tasks) : tasks[i].task_id = ld_call.task_id}
           IN IF M = {} THEN ld_out.value = <<>>
              ELSE ld_out.value = <<tasks[CHOOSE i \in M : \A j \in M : i <= j]>>

\* load_dataset raised an Exception and get_task_by_id found the third mock
\* task.
C30_Witness ==
    /\ ld_call # <<>>
    /\ ld_call.method = "get_task_by_id"
    /\ C30_LoadFailed
    /\ ld_out.kind = "returned"
    /\ ld_out.value = <<HumanEvalFixLoader_get_mock_data[3]>>


\* C31: in BugFixAgent, when the tool message that run_code writes for a
\* passing candidate precedes the latest reply, and that reply neither names
\* the tool nor holds a code block, _should_continue answers 'extract': the
\* graph goes on to extract_code and not to another round of tools.
C31_PlainReplyAfterSuccess ==
    LET n == Len(bf_messages)
    IN /\ n >= 2
       /\ bf_messages[n].type = "ai"
       /\ ~bf_messages[n].tool
       /\ bf_messages[n].block.kind = "none"
       /\ bf_messages[n - 1].type = "tool"
       /\ bf_messages[n - 1].content.head = "U+2713 Success! All tests passed."

C31_SuccessStopsLoop ==
    C31_PlainReplyAfterSuccess => bf_node # "tools"


\* C32: _extract_code_node sets fixed_code to the trimmed content of the
\* python code block of the most recent AI message that holds one (later
\* messages without a block are passed over), and to the original
\* buggy_code when no AI message holds a block; no other field of the state
\* changes.
C32_WithBlock ==
    {i \in 1..Len(bf_messages) :
        bf_messages[i].type = "ai" /\ bf_messages[i].block.kind = "closed"}

C32_Extract ==
    (bf_node = "extract_code" /\ bf_node' # bf_node) =>
        /\ fixed_code' =
             IF C32_WithBlock = {} THEN buggy_code
             ELSE LET i == CHOOSE i \in C32_WithBlock :
                               \A j \in C32_WithBlock : j <= i
                  IN [pad |-> FALSE, body |-> bf_messages[i].block.text.body]
        /\ UNCHANGED <<bf_messages, buggy_code, iteration, max_iterations>>

C32_ExtractLatestBlock == [][C32_Extract]_allVars

\* C32 witness: extract_code has run on messages whose last AI message has
\* no block, and fixed_code is the trimmed block of an earlier one, which was
\* written with white space around it.
C32_Witness ==
    /\ bf_node = "END"
    /\ C32_WithBlock # {}
    /\ \A i \in C32_WithBlock :
           /\ i < Len(bf_messages)
           /\ bf_messages[i].block.text = [pad |-> TRUE, body |-> "fix"]
    /\ bf_messages[Len(bf_messages)].type = "ai"
    /\ fixed_code = [pad |-> FALSE, body |-> "fix"]


\* C33: _should_continue never answers 'end': in every reachable state its
\* answer is 'continue' or 'extract'.  So the agent node is followed by tools
\* or extract_code, END is entered from extract_code only, extract_code runs
\* once, and what fix_bug returns is the fixed_code extract_code assigned.
C33_Answer ==
    bf_messages # <<>> =>
        BugFixAgent_should_continue(bf_messages, iteration, max_iterations)
            \in {"continue", "extract"}

C33_Step ==
    /\ (bf_node = "agent" /\ bf_node' # "agent")
           => bf_node' \in {"tools", "extract_code"}
    /\ (bf_node' = "END" /\ bf_node # "END")
           => (bf_node = "extract_code" /\ fixed_code' # NoText)
    /\ (bf_node' = "extract_code" /\ bf_node # "extract_code")
           => bf_node = "agent"
    /\ bf_node = "END" => (bf_node' \in {"END", "returned"} /\ UNCHANGED fixed_code)
    /\ bf_node = "returned" => bf_node' = "returned"
    /\ (bf_node' = "returned" /\ bf_node # "returned")
           => (bf_node = "END" /\ bf_ret' = fixed_code)

C33_NeverEnd == []C33_Answer /\ [][C33_Step]_allVars

\* C33 witness: fix_bug has returned an assigned fixed_code after a reply
\* without tool name and without block was answered with the default
\* 'continue'.
C33_Witness ==
    /\ bf_node = "returned"
    /\ bf_ret = fixed_code
    /\ fixed_code # NoText
    /\ \E i \in 1..(Len(bf_messages) - 1) :
           /\ bf_messages[i].type = "ai"
           /\ ~bf_messages[i].tool
           /\ bf_messages[i].block.kind = "none"
           /\ bf_messages[i + 1].type = "tool"


\* C34: run resumes.  A row whose result cell already holds a value is never
\* submitted and keeps that value, in the column and in the file; the rows
\* whose cell is empty or missing are submitted, each once; and when no row
\* is left to process run returns with nothing submitted.
C34_Held(i) == r_env.file = "column" /\ r_env.cells[i] # ""

C34_Resumes ==
    r_pc \notin {"off", "start"} =>
        /\ \A i \in DOMAIN r_subs :
             IF C34_Held(i)
             THEN /\ r_subs[i] = 0
                  /\ r_col[i] = r_env.cells[i]
                  /\ r_csv[i] = r_env.cells[i]
             ELSE r_subs[i] = 1
        /\ (\A i \in DOMAIN r_subs : C34_Held(i)) =>
               (r_pc = "returned" /\ r_got = {})

\* C34 witness: run has returned; a row that held a result was left alone
\* and a row that held none now holds the fix.
C34_Witness ==
    /\ r_pc = "returned"
    /\ \E i, j \in DOMAIN r_subs :
         /\ C34_Held(i)
         /\ r_csv[i] = "old"
         /\ r_subs[i] = 0
         /\ ~C34_Held(j)
         /\ r_subs[j] = 1
         /\ r_csv[j] = "fix"


\* C35: process_single_row never raises: when the files, the agent or its
\* run raise it returns the original buggy function, otherwise the content
\* of the task's code file after the run.
C35_NeverRaises ==
    /\ g_node # "propagated"
    /\ g_node = "returned" =>
           g_ret = IF g_exc = "none" THEN g_file ELSE "buggy"


\* C36: in run_tests of evaluation.py every row whose code is a non-empty
\* string adds 1 to exactly one of passed, failed, errors, timeout and a
\* skipped row adds nothing, so the four counters add up to the number of
\* rows that were not skipped; and main exits with code 0 exactly when
\* failed, errors and timeout are all 0.
C36_NotSkipped ==
    {j \in 1..(ec_i - 1) : ec_rows[j].str /\ ec_rows[j].text # EmptyText}

C36_CountersAddUp ==
    ec_pc # "off" =>
      /\ ec_results.passed + ec_results.failed + ec_results.errors
             + ec_results.timeout = Cardinality(C36_NotSkipped)
      /\ ec_pc = "exited" =>
             ((ec_exit = 0) = (/\ ec_results.failed = 0
                               /\ ec_results.errors = 0
                               /\ ec_results.timeout = 0))


\* C37: for every list of results calculate_pass_at_1 returns, with total
\* the length of the list, passed + failed + errors equal to total, and
\* detailed_results holding one entry for each result, in the order of the
\* list, whose passed flag is true for exactly the results counted in passed.
C37_PassAt1 ==
    /\ pa_pc # "raised"
    /\ pa_pc = "returned" =>
         /\ pa_counts.passed + pa_counts.failed + pa_counts.errors = pa_total
         /\ Len(pa_detailed) = pa_total
         /\ \A i \in 1..Len(pa_detailed) : pa_detailed[i].task_id = i
         /\ Cardinality({i \in 1..Len(pa_detailed) : pa_detailed[i].passed})
                = pa_counts.passed


\* C38: for every task id process_single_row names the two files with,
\* run_tests called with the path of the code file gets the same id back
\* from the path and reads the test file written for that task.
C38_SameTaskId ==
    tp_pc = "read" =>
        /\ task_id_of_path(tp_paths.code) = tp_id
        /\ tp_read = tp_paths.test

====
